---------------------------- MODULE Spec2Model ----------------------------
(***************************************************************************)
(* A model of the rtForth core (src/src/core.rs, src/src/memory.rs, the    *)
(* VM record of src/rtf/src/main.rs): data space, stacks, word list, the   *)
(* outer interpreter, the control-flow compiler and the inner interpreter. *)
(*                                                                         *)
(* Every Rust function that the model needs is an operator of the same     *)
(* name that maps a VM record to the VM record after the call.  The cell   *)
(* is CellBits wide instead of 64 bits (TLC has 32-bit integers); wrapping *)
(* arithmetic wraps at that width.  Addresses are byte addresses and a     *)
(* cell occupies Cell address units.                                       *)
(***************************************************************************)
EXTENDS Integers, Sequences, FiniteSets, TLC

\* ----------------------------------------------------------------------
\* Sizes
\* ----------------------------------------------------------------------

\* Width of a cell in bits (isize): 64 in the build, scaled down here.
CellBits == 12

\* mem::size_of::<isize>() in address units.
Cell == 8

\* First address of the data space.
BASE_ADDR == 64

\* Capacity of the data space in bytes (num_pages * page size, scaled).
DataCapacity == 3584

\* Stack<T>: inner is [T; 256], len is a u8.
StackSize == 256

\* Guard indices of the canary test.
OverflowIndex == 64

UnderflowIndex == 255

UnderflowLen == 128

\* Canary of the parameter and return stacks (Task::new_background).
IntCanary == 305419896

\* Canary of the float stack, 1.234567890, in units of 10^-9.
FloatCanary == 1234567890

\* Capacity of the label table.
LABEL_COUNT == 1000

\* NUM_TASKS of lib.rs.
NUM_TASKS == 5

RECURSIVE Pow2(_)
Pow2(n) == IF n = 0 THEN 1 ELSE 2 * Pow2(n - 1)

CellMod == Pow2(CellBits)

\* isize::min_value() and isize::max_value() at the model's width.
IsizeMin == -(CellMod \div 2)

IsizeMax == (CellMod \div 2) - 1

\* Two's-complement wrap of an integer to a cell (wrapping_add, wrapping_sub,
\* `as isize`).
Wrap(x) == ((x - IsizeMin) % CellMod) + IsizeMin

\* `as usize` of a cell: the unsigned view.
AsUsize(x) == x % CellMod

\* isize::checked_add: <<TRUE, sum>> or <<FALSE, 0>> on overflow.
checked_add(a, b) ==
    IF a + b > IsizeMax \/ a + b < IsizeMin THEN <<FALSE, 0>> ELSE <<TRUE, a + b>>

\* ----------------------------------------------------------------------
\* Exceptions (src/src/core.rs imports them from the exception module)
\* ----------------------------------------------------------------------

NoError == "None"

Exceptions ==
    { "ABORT", "CONTROL_STRUCTURE_MISMATCH", "DIVISION_BY_ZERO",
      "INTERPRETING_A_COMPILE_ONLY_WORD", "INVALID_MEMORY_ADDRESS",
      "INVALID_NUMERIC_ARGUMENT", "RETURN_STACK_OVERFLOW",
      "RETURN_STACK_UNDERFLOW", "FLOATING_POINT_STACK_OVERFLOW",
      "FLOATING_POINT_STACK_UNDERFLOW", "STACK_OVERFLOW", "STACK_UNDERFLOW",
      "UNDEFINED_WORD", "UNEXPECTED_END_OF_FILE", "UNSUPPORTED_OPERATION" }

\* ----------------------------------------------------------------------
\* Stack<T>  (core.rs 190-289)
\* A stack is [len, inner, canary]; inner is kept sparse: an index that was
\* never written since the last reset holds the canary.
\* ----------------------------------------------------------------------

U8(x) == x % StackSize

Stack_new(canary) == [len |-> 0, inner |-> <<>>, canary |-> canary]

Stack_reset(st) == [st EXCEPT !.len = 0, !.inner = <<>>]

\* self.inner[i]
Stack_at(st, i) == IF i \in DOMAIN st.inner THEN st.inner[i] ELSE st.canary

\* self.inner[i] = v
Stack_set(st, i, v) ==
    [st EXCEPT !.inner = [k \in (DOMAIN st.inner) \cup {i} |->
                             IF k = i THEN v ELSE st.inner[k]]]

Stack_underflow(st) ==
    (Stack_at(st, UnderflowIndex) /= st.canary) \/ (st.len > UnderflowLen)

Stack_overflow(st) ==
    (Stack_at(st, OverflowIndex) /= st.canary)
        \/ (st.len > OverflowIndex /\ st.len <= UnderflowLen)

Stack_push(st, v) ==
    LET len == U8(st.len + 1)
    IN  Stack_set([st EXCEPT !.len = len], U8(len - 1), v)

\* The value pop returns, and the stack it leaves.
Stack_top(st) == Stack_at(st, U8(st.len - 1))

Stack_drop(st, n) == [st EXCEPT !.len = U8(st.len - n)]

Stack_push2(st, v1, v2) ==
    LET len == U8(st.len + 2)
        s1  == Stack_set([st EXCEPT !.len = len], U8(len - 2), v1)
    IN  Stack_set(s1, U8(len - 1), v2)

\* Element k below the top (0 is the top): what pop2 and pop3 read.
Stack_peek(st, k) == Stack_at(st, U8(st.len - 1 - k))

Stack_last(st) == Stack_at(st, U8(st.len - 1))

\* The live part of the stack, bottom first (as_slice).
Stack_as_slice(st) == [k \in 1..st.len |-> Stack_at(st, k - 1)]

\* ----------------------------------------------------------------------
\* Control markers (core.rs 436-448): [tag, a, b]
\* ----------------------------------------------------------------------

Control(tag, a, b) == [tag |-> tag, a |-> a, b |-> b]

\* The canary of the control stack is Control::Default.
ControlCanary == Control("Default", 0, 0)


\* ----------------------------------------------------------------------
\* Tokens of the input buffer.  The buffer is held tokenized: a token is
\* a name, an integer literal or a float literal (the number parser is not
\* part of the sources under study).  A float is held as its value in
\* units of 10^-9.
\* ----------------------------------------------------------------------

Tok(name) == [num |-> FALSE, flt |-> FALSE, w |-> name, n |-> 0]

Num(k) == [num |-> TRUE, flt |-> FALSE, w |-> "", n |-> k]

Flt(k) == [num |-> FALSE, flt |-> TRUE, w |-> "", n |-> k]

\* The cleared last-token buffer.
EmptyToken == Tok("")

\* ----------------------------------------------------------------------
\* DataSpace (memory.rs)
\* ----------------------------------------------------------------------

start == BASE_ADDR

limit == BASE_ADDR + DataCapacity

\* Cell-aligned addresses of the data space.
Addrs == { BASE_ADDR + Cell * k : k \in 0..((DataCapacity \div Cell) - 1) }

\* Memory::has
has(pos) == start <= pos /\ pos < limit

\* A panic of the Rust build (index out of bounds, explicit panic!).
Panic(m) == [m EXCEPT !.panicked = TRUE]

get_isize(m, addr) == IF addr \in Addrs THEN m.mem[addr] ELSE 0

get_usize(m, addr) == AsUsize(get_isize(m, addr))

put_isize(m, v, pos) ==
    IF pos \in Addrs THEN [m EXCEPT !.mem[pos] = v] ELSE Panic(m)

set_here(m, pos) ==
    IF start <= pos /\ pos <= limit THEN [m EXCEPT !.here = pos] ELSE m

\* allot that moves here by v without the test of set_here.
allot_unchecked(m, v) == [m EXCEPT !.here = m.here + v]

allot(m, v) == set_here(m, m.here + v)

aligned(pos) == ((pos + Cell - 1) \div Cell) * Cell

align(m) == set_here(m, aligned(m.here))

truncate(m, pos) == set_here(m, pos)

compile_isize(m, v) ==
    IF m.here + Cell <= limit
    THEN allot(put_isize(m, v, m.here), Cell)
    ELSE Panic(m)

compile_usize(m, v) == compile_isize(m, v)

\* compile_str: the length cell, then the bytes; the bytes themselves are
\* kept in the header's name field.  Returns the VM; the nfa is the old here.
compile_str(m, len) ==
    IF m.here + len + Cell <= limit
    THEN allot(compile_usize(m, len), len)
    ELSE Panic(m)

\* ----------------------------------------------------------------------
\* Word and Wordlist (core.rs 26-173)
\* ----------------------------------------------------------------------

\* The printable ASCII characters 33..126 in order.  The double quote, the
\* backslash and the backquote (34, 92, 96) are written as blanks: no name
\* of the model contains them, and a blank is never part of a name.
Ascii ==
    "! #$%&'()*+,-./0123456789:;<=>?@ABCDEFGHIJKLMNOPQRSTUVWXYZ[ ]^_ abcdefghijklmnopqrstuvwxyz{|}~"

\* The character of a byte, as a one-character string.
CharOf(b) == SubSeq(Ascii, b - 32, b - 32)

\* The byte of each character.
ByteTable ==
    [c \in { CharOf(b) : b \in 33..126 } |->
        CHOOSE b \in 33..126 : CharOf(b) = c]

\* The byte of a one-character string, and str::bytes.
ByteOf(c) == ByteTable[c]

Bytes(name) == [i \in 1..Len(name) |-> ByteOf(SubSeq(name, i, i))]

\* u8::to_ascii_lowercase
to_ascii_lowercase(b) == IF 65 <= b /\ b <= 90 THEN b + 32 ELSE b

\* str::eq_ignore_ascii_case
eq_ignore_ascii_case(a, b) ==
    /\ Len(a) = Len(b)
    /\ \A i \in 1..Len(a) :
          to_ascii_lowercase(ByteOf(SubSeq(a, i, i)))
              = to_ascii_lowercase(ByteOf(SubSeq(b, i, i)))

\* String::make_ascii_lowercase
RECURSIVE make_ascii_lowercase(_)
make_ascii_lowercase(name) ==
    IF name = "" THEN ""
    ELSE LET b == to_ascii_lowercase(ByteOf(SubSeq(name, 1, 1)))
         IN  CharOf(b) \o make_ascii_lowercase(Tail(name))

BUCKET_SIZE == 64

\* A u32 is held as the pair <<high half, low half>> of 16-bit halves.
Half == 65536

\* hash.wrapping_shl(5).wrapping_add(hash).wrapping_add(c), that is
\* hash * 33 + c modulo 2^32.
hash_step(h, c) ==
    LET lo == h[2] * 33 + c
    IN  << (h[1] * 33 + (lo \div Half)) % Half, lo % Half >>

\* Wordlist::hash: djb2 over the lower-cased bytes, starting from 5381.
RECURSIVE hash_from(_, _, _)
hash_from(h, bytes, i) ==
    IF i > Len(bytes) THEN h
    ELSE hash_from(hash_step(h, to_ascii_lowercase(bytes[i])), bytes, i + 1)

hash(name) == hash_from(<<0, 5381>>, Bytes(name), 1)

\* w.hash as usize % BUCKET_SIZE
BucketOf(h) == h[2] % BUCKET_SIZE

\* The name of the header stands for the counted string at its nfa.
Word_new(name, action, cs, nfa, dfa) ==
    [ name |-> name, action |-> action, cs |-> cs,
      is_immediate |-> FALSE, is_compile_only |-> FALSE, hidden |-> FALSE,
      link |-> 0, hash |-> <<0, 0>>,
      nfa |-> nfa, dfa |-> dfa, doer |-> 0 ]

\* self.wordlist()[i]
WordAt(m, i) == m.words[i + 1]

Wordlist_len(m) == Len(m.words)

\* Wordlist::push taking hash modulo half as many buckets.
Wordlist_push_half_buckets(m, name, w) ==
    LET h == hash(name)
        b == h[2] % (BUCKET_SIZE \div 2)
        w1 == [w EXCEPT !.hash = h, !.link = m.buckets[b]]
    IN  [m EXCEPT !.last = Len(m.words),
                  !.buckets[b] = Len(m.words),
                  !.words = Append(m.words, w1)]

Wordlist_push(m, name, w) ==
    LET h == hash(name)
        b == BucketOf(h)
        w1 == [w EXCEPT !.hash = h, !.link = m.buckets[b]]
    IN  [m EXCEPT !.last = Len(m.words),
                  !.buckets[b] = Len(m.words),
                  !.words = Append(m.words, w1)]

\* Wordlist::truncate: words.truncate(i) keeps a shorter list as it is;
\* `len() - 1` of an empty list is a usize underflow.
Wordlist_truncate(m, i) ==
    LET ws == IF i < Len(m.words) THEN SubSeq(m.words, 1, i) ELSE m.words
    IN  IF Len(ws) = 0 THEN Panic(m)
        ELSE [m EXCEPT !.words = ws, !.last = Len(ws) - 1]

\* Length in bytes of a name (str::len).
NameLen(name) == Len(name)

add_primitive(m, name, action) ==
    LET nfa == m.here
        m1  == align(compile_str(m, NameLen(name)))
    IN  Wordlist_push(m1, name, Word_new(name, action, "compile_word", nfa, m1.here))

immediate(m) == [m EXCEPT !.words[m.last + 1].is_immediate = TRUE]

compile_only(m) == [m EXCEPT !.words[m.last + 1].is_compile_only = TRUE]

add_immediate(m, name, action) == immediate(add_primitive(m, name, action))

add_compile_only(m, name, action) == compile_only(add_primitive(m, name, action))

add_immediate_and_compile_only(m, name, action) ==
    compile_only(immediate(add_primitive(m, name, action)))

\* The loop of find taking the first visible word with the hash of the
\* name, without comparing the names.
RECURSIVE find_from_by_hash(_, _, _, _)
find_from_by_hash(m, w, h, name) ==
    IF w = 0 THEN -1
    ELSE IF w >= Len(m.words) THEN -2
    ELSE IF ~WordAt(m, w).hidden /\ WordAt(m, w).hash = h THEN w
    ELSE find_from_by_hash(m, WordAt(m, w).link, h, name)

\* The loop of find from word w on with the hash already computed: the
\* word found, -1 for None, -2 for an index beyond the word list (a panic).
RECURSIVE find_from(_, _, _, _)
find_from(m, w, h, name) ==
    IF w = 0 THEN -1
    ELSE IF w >= Len(m.words) THEN -2
    ELSE IF /\ ~WordAt(m, w).hidden
            /\ WordAt(m, w).hash = h
            /\ eq_ignore_ascii_case(WordAt(m, w).name, name)
    THEN w
    ELSE find_from(m, WordAt(m, w).link, h, name)

find(m, name) ==
    LET h == hash(name)
    IN  find_from(m, m.buckets[BucketOf(h)], h, name)


\* ----------------------------------------------------------------------
\* Error handling (core.rs 3030-3175) and execute_word (core.rs 763-770)
\* ----------------------------------------------------------------------

RECURSIVE execute_word(_, _)

set_error(m, e) == [m EXCEPT !.last_error = e]

\* clear_stacks that resets the three stacks of every task.
clear_stacks_of_all_tasks(m) ==
    [m EXCEPT !.s_stack = Stack_reset(@), !.f_stack = Stack_reset(@),
              !.c_stack = Stack_reset(@),
              !.tasks = [ i \in DOMAIN @ |->
                            [@[i] EXCEPT !.s_stack = Stack_reset(@),
                                         !.f_stack = Stack_reset(@),
                                         !.c_stack = Stack_reset(@)] ]]

clear_stacks(m) ==
    [m EXCEPT !.s_stack = Stack_reset(@), !.f_stack = Stack_reset(@),
              !.c_stack = Stack_reset(@)]

\* The handler is no word, or is the word abort: execute_word(handler)
\* calls abort_with again, which calls execute_word(handler) again.
HandlerAborts(m) ==
    \/ m.handler >= Wordlist_len(m)
    \/ WordAt(m, m.handler).action = "abort"

\* abort_with that leaves the stacks as they are.
abort_with_keeps_stacks(m, e) ==
    LET m1 == set_error(m, e)
        m2 == [m1 EXCEPT !.aborted_word_pointer = m1.word_pointer]
    IN  IF HandlerAborts(m2) THEN Panic(m2)
        ELSE execute_word(m2, m2.handler)

\* The last statement of abort_with: execute_word(handler).  When the
\* handler itself aborts, the calls of abort_with and execute_word nest
\* without end until the stack of the process overflows and the process is
\* killed.
execute_handler(m) ==
    IF HandlerAborts(m) THEN Panic(m) ELSE execute_word(m, m.handler)

abort_with(m, e) ==
    execute_handler([set_error(clear_stacks(m), e) EXCEPT
                        !.aborted_word_pointer = m.word_pointer])

handler_store(m) ==
    [m EXCEPT !.s_stack = Stack_drop(@, 1),
              !.handler = AsUsize(Stack_top(m.s_stack))]

abort(m) == abort_with(m, "ABORT")

\* check_stacks that tests the overflow of the parameter stack only.
check_stacks_overflow_only(m) ==
    IF Stack_overflow(m.s_stack) THEN abort_with(m, "STACK_OVERFLOW")
    ELSE m

check_stacks(m) ==
    IF Stack_overflow(m.s_stack) THEN abort_with(m, "STACK_OVERFLOW")
    ELSE IF Stack_underflow(m.s_stack) THEN abort_with(m, "STACK_UNDERFLOW")
    ELSE IF Stack_overflow(m.r_stack) THEN abort_with(m, "RETURN_STACK_OVERFLOW")
    ELSE IF Stack_underflow(m.r_stack) THEN abort_with(m, "RETURN_STACK_UNDERFLOW")
    ELSE IF Stack_overflow(m.c_stack) THEN abort_with(m, "CONTROL_STRUCTURE_MISMATCH")
    ELSE IF Stack_underflow(m.c_stack) THEN abort_with(m, "CONTROL_STRUCTURE_MISMATCH")
    ELSE IF Stack_overflow(m.f_stack)
    THEN abort_with(m, "FLOATING_POINT_STACK_OVERFLOW")
    ELSE IF Stack_underflow(m.f_stack)
    THEN abort_with(m, "FLOATING_POINT_STACK_UNDERFLOW")
    ELSE m

left_bracket(m) == [m EXCEPT !.is_compiling = FALSE]

right_bracket(m) == [m EXCEPT !.is_compiling = TRUE]

\* reset that also clears the parameter, float and control stacks.
reset_and_stacks(m) ==
    [clear_stacks(m) EXCEPT !.r_stack = Stack_reset(@), !.source_id = 0,
              !.input_buffer = <<>>,
              !.aborted_word_pointer = 0, !.source_index = 0,
              !.is_compiling = FALSE, !.last_error = NoError]

\* reset: the return stack, the source, the compile state and the error.
reset(m) ==
    [m EXCEPT !.r_stack = Stack_reset(@), !.source_id = 0,
              !.input_buffer = <<>>,
              !.aborted_word_pointer = 0, !.source_index = 0,
              !.is_compiling = FALSE, !.last_error = NoError]

\* ----------------------------------------------------------------------
\* Stack shorthands on the VM record
\* ----------------------------------------------------------------------

SPush(m, v) == [m EXCEPT !.s_stack = Stack_push(@, v)]

SDrop(m, n) == [m EXCEPT !.s_stack = Stack_drop(@, n)]

RPush(m, v) == [m EXCEPT !.r_stack = Stack_push(@, v)]

RDrop(m, n) == [m EXCEPT !.r_stack = Stack_drop(@, n)]

CPush(m, c) == [m EXCEPT !.c_stack = Stack_push(@, c)]

CDrop(m, n) == [m EXCEPT !.c_stack = Stack_drop(@, n)]

SetIP(m, ip) == [m EXCEPT !.instruction_pointer = ip]

\* ----------------------------------------------------------------------
\* Run-time primitives
\* ----------------------------------------------------------------------

TRUE_ == -1

FALSE_ == 0

noop(m) == m

lit(m) ==
    LET ip == m.instruction_pointer
    IN  IF ip \notin Addrs THEN Panic(m)
        ELSE SetIP(SPush(m, get_isize(m, ip)), ip + Cell)

\* align_of::<f64>() is the cell size.
aligned_f64(pos) == aligned(pos)

get_f64(m, addr) == IF addr \in Addrs THEN m.mem[addr] ELSE 0

flit(m) ==
    LET ip == aligned_f64(m.instruction_pointer)
    IN  IF ip \notin Addrs THEN Panic(m)
        ELSE SetIP([m EXCEPT !.f_stack = Stack_push(@, get_f64(m, ip))],
                   ip + Cell)

branch(m) ==
    LET ip == m.instruction_pointer
    IN  IF ip \notin Addrs THEN Panic(m)
        ELSE SetIP(m, AsUsize(get_isize(m, ip)))

zero_branch(m) ==
    LET v  == Stack_top(m.s_stack)
        m1 == SDrop(m, 1)
    IN  IF v = 0 THEN branch(m1)
        ELSE SetIP(m1, m1.instruction_pointer + Cell)

\* The loop-control pair of _do and _qdo for limit n and index t.
loop_rt(n, t) == Wrap(Wrap(IsizeMin + t) - n)

loop_rn(n, t) == Wrap(t - loop_rt(n, t))

_do(m) ==
    LET ip == m.instruction_pointer
        m1 == SetIP(RPush(m, ip), ip + Cell)
        n  == Stack_peek(m1.s_stack, 1)
        t  == Stack_peek(m1.s_stack, 0)
        m2 == SDrop(m1, 2)
    IN  [m2 EXCEPT !.r_stack = Stack_push2(@, loop_rn(n, t), loop_rt(n, t))]

_qdo(m) ==
    LET n  == Stack_peek(m.s_stack, 1)
        t  == Stack_peek(m.s_stack, 0)
        m1 == SDrop(m, 2)
        ip == m1.instruction_pointer
    IN  IF n = t THEN branch(m1)
        ELSE [SetIP(RPush(m1, ip), ip + Cell) EXCEPT
                 !.r_stack = Stack_push2(@, loop_rn(n, t), loop_rt(n, t))]

\* _loop that leaves the loop without discarding the loop-control cells.
_loop_keeps_cells(m) ==
    LET rt  == Stack_top(m.r_stack)
        m1  == RDrop(m, 1)
        sum == checked_add(rt, 1)
    IN  IF sum[1] THEN branch(RPush(m1, sum[2]))
        ELSE SetIP(m1, m1.instruction_pointer + Cell)

_loop(m) ==
    LET rt  == Stack_top(m.r_stack)
        m1  == RDrop(m, 1)
        sum == checked_add(rt, 1)
    IN  IF sum[1] THEN branch(RPush(m1, sum[2]))
        ELSE SetIP(RDrop(m1, 2), m1.instruction_pointer + Cell)

\* _+loop that leaves the address of the loop on the return stack when
\* the loop is left.
_plus_loop_keeps_address(m) ==
    LET rt  == Stack_top(m.r_stack)
        m1  == RDrop(m, 1)
        t   == Stack_top(m1.s_stack)
        m2  == SDrop(m1, 1)
        sum == checked_add(rt, t)
    IN  IF sum[1] THEN branch(RPush(m2, sum[2]))
        ELSE SetIP(RDrop(m2, 1), m2.instruction_pointer + Cell)

_plus_loop(m) ==
    LET rt  == Stack_top(m.r_stack)
        m1  == RDrop(m, 1)
        t   == Stack_top(m1.s_stack)
        m2  == SDrop(m1, 1)
        sum == checked_add(rt, t)
    IN  IF sum[1] THEN branch(RPush(m2, sum[2]))
        ELSE SetIP(RDrop(m2, 2), m2.instruction_pointer + Cell)

unloop(m) == RDrop(m, 3)

\* leave that takes the exit address and keeps the loop-control cells.
leave_keeps_cells(m) ==
    LET third == Stack_peek(m.r_stack, 2)
    IN  IF AsUsize(third) \notin Addrs THEN Panic(m)
        ELSE SetIP(m, AsUsize(get_isize(m, AsUsize(third))))

leave(m) ==
    LET third == Stack_peek(m.r_stack, 2)
        m1    == RDrop(m, 3)
    IN  IF Stack_underflow(m1.r_stack) THEN abort_with(m1, "RETURN_STACK_UNDERFLOW")
        ELSE IF AsUsize(third) \notin Addrs THEN Panic(m1)
        ELSE SetIP(m1, AsUsize(get_isize(m1, AsUsize(third))))

\* p_j reading the pair of the inner loop.
p_j_inner_pair(m) ==
    IF m.r_stack.len < 5 THEN Panic(m)
    ELSE LET pos == m.r_stack.len - 1
             jt  == Stack_at(m.r_stack, pos)
             jn  == Stack_at(m.r_stack, pos - 1)
         IN  SPush(m, Wrap(jt + jn))

\* `len - 2` and `len - 4` are u8 subtractions: they panic below zero.
p_i(m) ==
    IF m.r_stack.len < 2 THEN Panic(m)
    ELSE LET it    == Stack_last(m.r_stack)
             inext == Stack_at(m.r_stack, m.r_stack.len - 2)
         IN  SPush(m, Wrap(it + inext))

p_j(m) ==
    IF m.r_stack.len < 5 THEN Panic(m)
    ELSE LET pos == m.r_stack.len - 4
             jt  == Stack_at(m.r_stack, pos)
             jn  == Stack_at(m.r_stack, pos - 1)
         IN  SPush(m, Wrap(jt + jn))

nest(m) ==
    SetIP(RPush(m, m.instruction_pointer), WordAt(m, m.word_pointer).dfa)

\* exit that leaves the return address on the return stack.
exit_keeps_address(m) == SetIP(m, AsUsize(Stack_top(m.r_stack)))

exit(m) ==
    SetIP(RDrop(m, 1), AsUsize(Stack_top(m.r_stack)))

p_to_r(m) == SDrop(RPush(m, Stack_top(m.s_stack)), 1)

r_from(m) == RDrop(SPush(m, Stack_top(m.r_stack)), 1)

dup(m) == SPush(m, Stack_top(m.s_stack))

p_drop(m) == SDrop(m, 1)

swap(m) ==
    LET slen == m.s_stack.len
        t == Stack_at(m.s_stack, U8(slen - 1))
        n == Stack_at(m.s_stack, U8(slen - 2))
    IN  [m EXCEPT !.s_stack = Stack_set(Stack_set(@, U8(slen - 1), n), U8(slen - 2), t)]

over(m) == SPush(m, Stack_peek(m.s_stack, 1))

one_plus(m) ==
    LET slen == m.s_stack.len
    IN  [m EXCEPT !.s_stack =
            Stack_set(@, U8(slen - 1), Wrap(Stack_at(@, U8(slen - 1)) + 1))]

plus(m) ==
    LET slen == m.s_stack.len
        t == Stack_at(m.s_stack, U8(slen - 1))
        n == Stack_at(m.s_stack, U8(slen - 2))
    IN  SDrop([m EXCEPT !.s_stack = Stack_set(@, U8(slen - 2), Wrap(n + t))], 1)

star(m) ==
    LET slen == m.s_stack.len
        t == Stack_at(m.s_stack, U8(slen - 1))
        n == Stack_at(m.s_stack, U8(slen - 2))
    IN  SDrop([m EXCEPT !.s_stack = Stack_set(@, U8(slen - 2), Wrap(n * t))], 1)

\* isize::wrapping_div and isize::wrapping_rem: truncated division.
Abs(x) == IF x < 0 THEN -x ELSE x

TruncDiv(n, t) ==
    IF (n >= 0) = (t > 0) THEN Abs(n) \div Abs(t) ELSE -(Abs(n) \div Abs(t))

wrapping_div(n, t) == Wrap(TruncDiv(n, t))

\* Floored division in place of the truncated one.
wrapping_div_floored(n, t) == Wrap(n \div t)

wrapping_rem(n, t) == Wrap(n - t * TruncDiv(n, t))

slash(m) ==
    LET slen == m.s_stack.len
        t == Stack_at(m.s_stack, U8(slen - 1))
        n == Stack_at(m.s_stack, U8(slen - 2))
    IN  IF t = 0 THEN abort_with(m, "DIVISION_BY_ZERO")
        ELSE SDrop([m EXCEPT !.s_stack =
                       Stack_set(@, U8(slen - 2), wrapping_div(n, t))], 1)

p_mod(m) ==
    LET slen == m.s_stack.len
        t == Stack_at(m.s_stack, U8(slen - 1))
        n == Stack_at(m.s_stack, U8(slen - 2))
    IN  IF t = 0 THEN abort_with(m, "DIVISION_BY_ZERO")
        ELSE SDrop([m EXCEPT !.s_stack =
                       Stack_set(@, U8(slen - 2), wrapping_rem(n, t))], 1)

\* /mod with the quotient rounded towards minus infinity.
slash_mod_floored(m) ==
    LET slen == m.s_stack.len
        t == Stack_at(m.s_stack, U8(slen - 1))
        n == Stack_at(m.s_stack, U8(slen - 2))
    IN  IF t = 0 THEN abort_with(m, "DIVISION_BY_ZERO")
        ELSE [m EXCEPT !.s_stack =
                Stack_set(Stack_set(@, U8(slen - 2), wrapping_rem(n, t)),
                          U8(slen - 1), wrapping_div_floored(n, t))]

slash_mod(m) ==
    LET slen == m.s_stack.len
        t == Stack_at(m.s_stack, U8(slen - 1))
        n == Stack_at(m.s_stack, U8(slen - 2))
    IN  IF t = 0 THEN abort_with(m, "DIVISION_BY_ZERO")
        ELSE [m EXCEPT !.s_stack =
                Stack_set(Stack_set(@, U8(slen - 2), wrapping_rem(n, t)),
                          U8(slen - 1), wrapping_div(n, t))]

bye(m) == SetIP(m, 0)

\* Byte j of a cell (little-endian, two's complement): the cell shifted
\* right by j bytes, modulo 256.
RECURSIVE ShiftRightBytes(_, _)
ShiftRightBytes(v, j) == IF j = 0 THEN v ELSE ShiftRightBytes(v \div 256, j - 1)

RECURSIVE Pow256(_)
Pow256(j) == IF j = 0 THEN 1 ELSE 256 * Pow256(j - 1)

\* The cell that holds the byte at addr.
CellOf(addr) == addr - (addr % Cell)

get_u8(m, addr) == ShiftRightBytes(m.mem[CellOf(addr)], addr % Cell) % 256

put_u8(m, v, pos) ==
    LET old == get_u8(m, pos)
    IN  IF v = old THEN m
        ELSE [m EXCEPT !.mem[CellOf(pos)] = @ + (v - old) * Pow256(pos % Cell)]

\* fetch and store address whole cells; the model holds the data space by
\* cells, so get_isize and put_isize act on cell-aligned addresses.
fetch(m) ==
    LET t  == AsUsize(Stack_top(m.s_stack))
        m1 == SDrop(m, 1)
    IN  IF start < t /\ t + Cell <= limit
        THEN SPush(m1, get_isize(m1, t))
        ELSE abort_with(m1, "INVALID_MEMORY_ADDRESS")

store(m) ==
    LET n  == Stack_peek(m.s_stack, 1)
        t  == AsUsize(Stack_peek(m.s_stack, 0))
        m1 == SDrop(m, 2)
    IN  IF start < t /\ t + Cell <= limit
        THEN put_isize(m1, n, t)
        ELSE abort_with(m1, "INVALID_MEMORY_ADDRESS")

c_fetch(m) ==
    LET t  == AsUsize(Stack_top(m.s_stack))
        m1 == SDrop(m, 1)
    IN  IF start <= t /\ t < limit
        THEN SPush(m1, get_u8(m1, t))
        ELSE abort_with(m1, "INVALID_MEMORY_ADDRESS")

c_store(m) ==
    LET n  == Stack_peek(m.s_stack, 1)
        t  == AsUsize(Stack_peek(m.s_stack, 0))
        m1 == SDrop(m, 2)
    IN  IF start < t /\ t < limit
        THEN put_u8(m1, n % 256, t)
        ELSE abort_with(m1, "INVALID_MEMORY_ADDRESS")

equals(m) ==
    LET n == Stack_peek(m.s_stack, 1)
        t == Stack_peek(m.s_stack, 0)
    IN  SPush(SDrop(m, 2), IF t = n THEN TRUE_ ELSE FALSE_)


\* ----------------------------------------------------------------------
\* Compilation helpers (core.rs 831-939)
\* ----------------------------------------------------------------------

compile_word(m, word_index) == compile_usize(m, word_index)

compile_nest(m, word_index) == compile_word(m, word_index)

compile_integer(m, i) ==
    compile_isize(compile_word(m, m.references.idx_lit), i)

compile_f64(m, v) ==
    IF m.here + Cell <= limit
    THEN allot(put_isize(m, v, m.here), Cell)
    ELSE Panic(m)

compile_float(m, f) ==
    LET m1 == compile_word(m, m.references.idx_flit)
    IN  compile_f64(set_here(m1, aligned_f64(m1.here)), f)

\* compile_branch and compile_zero_branch return here(); the caller reads
\* it from the VM they return.
compile_branch(m, destination) ==
    compile_isize(compile_word(m, m.references.idx_branch), destination)

compile_zero_branch(m, destination) ==
    compile_isize(compile_word(m, m.references.idx_zero_branch), destination)

\* leave_part: the second field of the topmost Do marker, or -1 for None.
leave_part(m) ==
    LET sl  == Stack_as_slice(m.c_stack)
        pos == { k \in 1..Len(sl) : sl[k].tag = "Do" }
    IN  IF pos = {} THEN -1
        ELSE sl[CHOOSE k \in pos : \A k2 \in pos : k2 <= k].b

compile_leave(m, word_idx) ==
    IF leave_part(m) /= -1 THEN compile_word(m, word_idx)
    ELSE abort_with(m, "CONTROL_STRUCTURE_MISMATCH")

\* ----------------------------------------------------------------------
\* Control-flow compiler (core.rs 1120-1381, 1494-1610)
\* ----------------------------------------------------------------------

imm_if(m) ==
    LET m1 == compile_zero_branch(m, 0)
    IN  CPush(m1, Control("If", m1.here, 0))

\* imm_else that patches the 0branch of `if` before it emits its own branch,
\* so a false flag lands on that branch instead of on B.
imm_else_patch_first(m) ==
    LET top == Stack_top(m.c_stack)
        m1  == CDrop(m, 1)
    IN  IF top.tag /= "If" THEN abort_with(m1, "CONTROL_STRUCTURE_MISMATCH")
        ELSE IF Stack_underflow(m1.c_stack)
        THEN abort_with(m1, "CONTROL_STRUCTURE_MISMATCH")
        ELSE LET m2 == put_isize(m1, m1.here, top.a - Cell)
                 m3 == compile_branch(m2, 0)
             IN  CPush(m3, Control("Else", m3.here, 0))

imm_else(m) ==
    LET top == Stack_top(m.c_stack)
        m1  == CDrop(m, 1)
    IN  IF top.tag /= "If" THEN abort_with(m1, "CONTROL_STRUCTURE_MISMATCH")
        ELSE IF Stack_underflow(m1.c_stack)
        THEN abort_with(m1, "CONTROL_STRUCTURE_MISMATCH")
        ELSE LET m2 == compile_branch(m1, 0)
                 m3 == CPush(m2, Control("Else", m2.here, 0))
             IN  put_isize(m3, m2.here, top.a - Cell)

imm_then(m) ==
    LET top == Stack_top(m.c_stack)
        m1  == CDrop(m, 1)
    IN  IF top.tag \notin {"If", "Else"}
        THEN abort_with(m1, "CONTROL_STRUCTURE_MISMATCH")
        ELSE IF Stack_underflow(m1.c_stack)
        THEN abort_with(m1, "CONTROL_STRUCTURE_MISMATCH")
        ELSE put_isize(m1, m1.here, top.a - Cell)

imm_case(m) == CPush(m, Control("Case", 0, 0))

imm_of(m) ==
    LET top == Stack_top(m.c_stack)
        m1  == CDrop(m, 1)
    IN  IF top.tag \notin {"Case", "Endof"}
        THEN abort_with(m1, "CONTROL_STRUCTURE_MISMATCH")
        ELSE LET m2 == CPush(m1, top)
             IN  IF Stack_underflow(m2.c_stack)
                 THEN abort_with(m2, "CONTROL_STRUCTURE_MISMATCH")
                 ELSE LET m3 == compile_word(m2, m2.references.idx_over)
                          m4 == compile_word(m3, m3.references.idx_equal)
                          m5 == compile_zero_branch(m4, 0)
                          m6 == CPush(m5, Control("Of", m5.here, 0))
                      IN  compile_word(m6, m6.references.idx_drop)

imm_endof(m) ==
    LET top == Stack_top(m.c_stack)
        m1  == CDrop(m, 1)
    IN  IF top.tag /= "Of" THEN abort_with(m1, "CONTROL_STRUCTURE_MISMATCH")
        ELSE IF Stack_underflow(m1.c_stack)
        THEN abort_with(m1, "CONTROL_STRUCTURE_MISMATCH")
        ELSE LET m2 == compile_branch(m1, 0)
                 m3 == CPush(m2, Control("Endof", m2.here, 0))
             IN  put_isize(m3, m2.here, top.a - Cell)

\* The loop of imm_endcase stopping at the first Endof marker it patched.
endcase_loop_first_only(m) ==
    LET top == Stack_top(m.c_stack)
        m1  == CDrop(m, 1)
    IN  IF top.tag = "Case" THEN m1
        ELSE IF top.tag /= "Endof"
        THEN abort_with(m1, "CONTROL_STRUCTURE_MISMATCH")
        ELSE put_isize(m1, m1.here, top.a - Cell)

\* The loop of imm_endcase: pops Endof markers and patches them until Case.
RECURSIVE endcase_loop(_)
endcase_loop(m) ==
    LET top == Stack_top(m.c_stack)
        m1  == CDrop(m, 1)
    IN  IF top.tag = "Case"
        THEN IF Stack_underflow(m1.c_stack)
             THEN abort_with(m1, "CONTROL_STRUCTURE_MISMATCH")
             ELSE m1
        ELSE IF top.tag /= "Endof"
        THEN abort_with(m1, "CONTROL_STRUCTURE_MISMATCH")
        ELSE IF Stack_underflow(m1.c_stack)
        THEN endcase_loop(abort_with(m1, "CONTROL_STRUCTURE_MISMATCH"))
        ELSE endcase_loop(put_isize(m1, m1.here, top.a - Cell))

imm_endcase(m) == endcase_loop(compile_word(m, m.references.idx_drop))

imm_begin(m) == CPush(m, Control("Begin", m.here, 0))

imm_while(m) ==
    LET m1 == compile_zero_branch(m, 0)
    IN  CPush(m1, Control("While", m1.here, 0))

\* imm_repeat that patches the 0branch of `while` to its own branch.
imm_repeat_exit_on_branch(m) ==
    LET b  == Stack_peek(m.c_stack, 1)
        w  == Stack_peek(m.c_stack, 0)
        m1 == CDrop(m, 2)
    IN  IF ~(b.tag = "Begin" /\ w.tag = "While")
        THEN abort_with(m1, "CONTROL_STRUCTURE_MISMATCH")
        ELSE IF Stack_underflow(m1.c_stack)
        THEN abort_with(m1, "CONTROL_STRUCTURE_MISMATCH")
        ELSE compile_branch(put_isize(m1, m1.here, w.a - Cell), b.a)

imm_repeat(m) ==
    LET b  == Stack_peek(m.c_stack, 1)
        w  == Stack_peek(m.c_stack, 0)
        m1 == CDrop(m, 2)
    IN  IF ~(b.tag = "Begin" /\ w.tag = "While")
        THEN abort_with(m1, "CONTROL_STRUCTURE_MISMATCH")
        ELSE IF Stack_underflow(m1.c_stack)
        THEN abort_with(m1, "CONTROL_STRUCTURE_MISMATCH")
        ELSE LET m2 == compile_branch(m1, b.a)
             IN  put_isize(m2, m2.here, w.a - Cell)

\* imm_until that takes whatever marker is on top.
imm_until_any_marker(m) ==
    LET top == Stack_top(m.c_stack)
        m1  == CDrop(m, 1)
    IN  IF Stack_underflow(m1.c_stack)
        THEN abort_with(m1, "CONTROL_STRUCTURE_MISMATCH")
        ELSE compile_zero_branch(m1, top.a)

imm_until(m) ==
    LET top == Stack_top(m.c_stack)
        m1  == CDrop(m, 1)
    IN  IF top.tag /= "Begin" THEN abort_with(m1, "CONTROL_STRUCTURE_MISMATCH")
        ELSE IF Stack_underflow(m1.c_stack)
        THEN abort_with(m1, "CONTROL_STRUCTURE_MISMATCH")
        ELSE compile_zero_branch(m1, top.a)

imm_again(m) ==
    LET top == Stack_top(m.c_stack)
        m1  == CDrop(m, 1)
    IN  IF top.tag /= "Begin" THEN abort_with(m1, "CONTROL_STRUCTURE_MISMATCH")
        ELSE IF Stack_underflow(m1.c_stack)
        THEN abort_with(m1, "CONTROL_STRUCTURE_MISMATCH")
        ELSE compile_branch(m1, top.a)

imm_do(m) ==
    LET m1 == compile_isize(compile_word(m, m.references.idx_do), 0)
    IN  CPush(m1, Control("Do", m1.here, m1.here))

imm_qdo(m) ==
    LET m1 == compile_isize(compile_word(m, m.references.idx_qdo), 0)
    IN  CPush(m1, Control("Do", m1.here, m1.here))

imm_loop(m) ==
    LET top == Stack_top(m.c_stack)
        m1  == CDrop(m, 1)
    IN  IF top.tag /= "Do" THEN abort_with(m1, "CONTROL_STRUCTURE_MISMATCH")
        ELSE IF Stack_underflow(m1.c_stack)
        THEN abort_with(m1, "CONTROL_STRUCTURE_MISMATCH")
        ELSE LET m2 == compile_isize(compile_word(m1, m1.references.idx_loop), top.a)
             IN  put_isize(m2, m2.here, top.a - Cell)

imm_plus_loop(m) ==
    LET top == Stack_top(m.c_stack)
        m1  == CDrop(m, 1)
    IN  IF top.tag /= "Do" THEN abort_with(m1, "CONTROL_STRUCTURE_MISMATCH")
        ELSE IF Stack_underflow(m1.c_stack)
        THEN abort_with(m1, "CONTROL_STRUCTURE_MISMATCH")
        ELSE LET m2 == compile_isize(compile_word(m1, m1.references.idx_plus_loop), top.a)
             IN  put_isize(m2, m2.here, top.a - Cell)

\* ----------------------------------------------------------------------
\* Labels (core.rs 1383-1477)
\* ----------------------------------------------------------------------

\* self.labels()[n]
Label_at(m, n) == IF n \in DOMAIN m.labels THEN m.labels[n] ELSE 0

\* self.labels_mut()[n] = v
Label_set(m, n, v) ==
    [m EXCEPT !.labels = [k \in (DOMAIN m.labels) \cup {n} |->
                             IF k = n THEN v ELSE m.labels[k]]]

imm_clear_labels(m) ==
    [m EXCEPT !.forward_bitset = {}, !.resolved_bitset = {}]

\* The loop of imm_label patching only the newest reference of the chain.
resolve_chain_head_only(m, p, here) ==
    IF p \notin Addrs THEN Panic(m) ELSE put_isize(m, here, p)

\* The loop of imm_label that resolves the forward references chained
\* from operand cell p.
RECURSIVE resolve_chain(_, _, _)
resolve_chain(m, p, here) ==
    IF p \notin Addrs THEN Panic(m)
    ELSE LET last == get_usize(m, p)
             m1   == put_isize(m, here, p)
         IN  IF last = 0 THEN m1 ELSE resolve_chain(m1, last, here)

\* imm_label with the upper bound of n off by one.
imm_label_through_capacity(m) ==
    LET n    == AsUsize(Stack_top(m.s_stack))
        m1   == SDrop(m, 1)
        here == m1.here
    IN  IF 0 < n /\ n <= LABEL_COUNT
        THEN IF n \in m1.forward_bitset
             THEN LET m2 == resolve_chain(m1, Label_at(m1, n), here)
                      m3 == Label_set(m2, n, here)
                  IN  [m3 EXCEPT !.forward_bitset = @ \ {n},
                                 !.resolved_bitset = @ \cup {n}]
             ELSE IF n \in m1.resolved_bitset
             THEN abort_with(m1, "INVALID_NUMERIC_ARGUMENT")
             ELSE [Label_set(m1, n, here) EXCEPT !.resolved_bitset = @ \cup {n}]
        ELSE abort_with(m1, "INVALID_NUMERIC_ARGUMENT")

imm_label(m) ==
    LET n    == AsUsize(Stack_top(m.s_stack))
        m1   == SDrop(m, 1)
        here == m1.here
    IN  IF 0 < n /\ n < LABEL_COUNT
        THEN IF n \in m1.forward_bitset
             THEN LET m2 == resolve_chain(m1, Label_at(m1, n), here)
                      m3 == Label_set(m2, n, here)
                  IN  [m3 EXCEPT !.forward_bitset = @ \ {n},
                                 !.resolved_bitset = @ \cup {n}]
             ELSE IF n \in m1.resolved_bitset
             THEN abort_with(m1, "INVALID_NUMERIC_ARGUMENT")
             ELSE [Label_set(m1, n, here) EXCEPT !.resolved_bitset = @ \cup {n}]
        ELSE abort_with(m1, "INVALID_NUMERIC_ARGUMENT")

\* imm_goto that marks a label forward although it is resolved.
imm_goto_marks_resolved(m) ==
    LET n  == AsUsize(Stack_top(m.s_stack))
        m1 == SDrop(m, 1)
    IN  IF 0 < n /\ n < LABEL_COUNT
        THEN IF n \in m1.forward_bitset
             THEN LET m2 == compile_branch(m1, Label_at(m1, n))
                  IN  Label_set(m2, n, m2.here - Cell)
             ELSE LET m2 == compile_branch(m1, IF n \in m1.resolved_bitset
                                               THEN Label_at(m1, n) ELSE 0)
                  IN  [Label_set(m2, n, m2.here - Cell) EXCEPT
                          !.forward_bitset = @ \cup {n}]
        ELSE abort_with(m1, "INVALID_NUMERIC_ARGUMENT")

imm_goto(m) ==
    LET n  == AsUsize(Stack_top(m.s_stack))
        m1 == SDrop(m, 1)
    IN  IF 0 < n /\ n < LABEL_COUNT
        THEN IF n \in m1.forward_bitset
             THEN LET m2 == compile_branch(m1, Label_at(m1, n))
                  IN  Label_set(m2, n, m2.here - Cell)
             ELSE IF n \in m1.resolved_bitset
             THEN compile_branch(m1, Label_at(m1, n))
             ELSE LET m2 == compile_branch(m1, 0)
                  IN  [Label_set(m2, n, m2.here - Cell) EXCEPT
                          !.forward_bitset = @ \cup {n}]
        ELSE abort_with(m1, "INVALID_NUMERIC_ARGUMENT")

\* imm_call whose return address is the branch operand, not the cell after.
imm_call_returns_early(m) ==
    LET return_addr == m.here + 4 * Cell
        m1 == compile_integer(m, return_addr)
        m2 == compile_word(m1, m1.references.idx_to_r)
    IN  imm_goto(m2)

imm_call(m) ==
    LET return_addr == m.here + 5 * Cell
        m1 == compile_integer(m, return_addr)
        m2 == compile_word(m1, m1.references.idx_to_r)
    IN  imm_goto(m2)


\* ----------------------------------------------------------------------
\* Tokenizer, definitions (core.rs 1680-1711, 2246-2293)
\* ----------------------------------------------------------------------

\* parse_word on the tokenized buffer: the next token, or the empty token
\* when the buffer is exhausted.
parse_word(m) ==
    IF m.source_index < Len(m.input_buffer)
    THEN [m EXCEPT !.last_token = m.input_buffer[m.source_index + 1],
                   !.source_index = @ + 1]
    ELSE [m EXCEPT !.last_token = EmptyToken]

\* define: the name is lower-cased; find is called for the redefinition
\* notice only, and the new header is appended in any case.
define(m, action, cs) ==
    LET m0   == parse_word(m)
        name == make_ascii_lowercase(m0.last_token.w)
        m1   == [m0 EXCEPT !.last_token.w = name]
    IN  IF find(m1, name) = -2 THEN Panic(m1)
        ELSE IF m1.last_token = EmptyToken
        THEN abort_with(m1, "UNEXPECTED_END_OF_FILE")
        ELSE LET nfa == m1.here
                 m2  == align(compile_str(m1, NameLen(name)))
             IN  Wordlist_push(m2, name, Word_new(name, action, cs, nfa, m2.here))

colon(m) ==
    LET m1 == define(m, "nest", "compile_nest")
    IN  IF m1.last_error = NoError
        THEN right_bracket([m1 EXCEPT !.words[m1.last + 1].hidden = TRUE])
        ELSE m1

\* The loop of marker: the saved bucket heads i.. are compiled.
RECURSIVE compile_buckets(_, _)
compile_buckets(m, i) ==
    IF i >= BUCKET_SIZE \/ m.panicked THEN m
    ELSE compile_buckets(compile_usize(m, m.temp_buckets[i]), i + 1)

\* marker: last, then the bucket heads as they were before the definition,
\* are compiled into the data field of the new word.
marker(m) ==
    LET x  == m.last
        m1 == [m EXCEPT !.temp_buckets = m.buckets]
        m2 == define(m1, "unmark", "compile_unmark")
    IN  compile_buckets(compile_usize(m2, x), 0)

\* unmark with the bucket heads read back from the data field of the word
\* but the word list left as long as it is.
unmark_keeps_words(m) ==
    LET wp  == m.word_pointer
        nfa == WordAt(m, wp).nfa
        dfa == WordAt(m, wp).dfa
    IN  IF \E i \in 0..BUCKET_SIZE : dfa + i * Cell \notin Addrs THEN Panic(m)
        ELSE LET m1 == [m EXCEPT !.last = get_usize(m, dfa),
                                 !.buckets = [i \in 0..(BUCKET_SIZE - 1) |->
                                                get_usize(m, dfa + (i + 1) * Cell)]]
             IN  truncate(m1, nfa)

\* unmark: the action of a word defined by marker.
unmark(m) ==
    LET wp  == m.word_pointer
        nfa == WordAt(m, wp).nfa
        dfa == WordAt(m, wp).dfa
    IN  IF \E i \in 0..BUCKET_SIZE : dfa + i * Cell \notin Addrs THEN Panic(m)
        ELSE LET m1 == [m EXCEPT !.last = get_usize(m, dfa),
                                 !.buckets = [i \in 0..(BUCKET_SIZE - 1) |->
                                                get_usize(m, dfa + (i + 1) * Cell)]]
             IN  Wordlist_truncate(truncate(m1, nfa), wp)

\* Core::here, Core::allot and Core::comma (the words here, allot and `,`).
Core_here(m) == SPush(m, Wrap(m.here))

Core_allot(m) == allot(SDrop(m, 1), Stack_top(m.s_stack))

comma(m) == compile_isize(SDrop(m, 1), Stack_top(m.s_stack))

\* ----------------------------------------------------------------------
\* Multitasker (rtf/src/main.rs 39-93, 218-270; core.rs 1612-1632,
\* 3176-3212).  The per-task fields of the VM record are those of the
\* current task; m.tasks[i] holds them for every other task i, and a fresh
\* task in the slot of the current one.  A task without input buffer has
\* the empty buffer: parse_word reads the empty token from either.
\* ----------------------------------------------------------------------

TaskIds == 0..(NUM_TASKS - 1)

\* Task::new_background with State::new.
Task_new_background ==
    [ s_stack |-> Stack_new(IntCanary), r_stack |-> Stack_new(IntCanary),
      c_stack |-> Stack_new(ControlCanary), f_stack |-> Stack_new(FloatCanary),
      is_compiling |-> FALSE, instruction_pointer |-> 0, word_pointer |-> 0,
      aborted_word_pointer |-> 0, source_index |-> 0, source_id |-> 0,
      input_buffer |-> << >> ]

\* self.tasks[i] without its awake flag.
Task_at(m, i) ==
    IF i = m.current_task
    THEN [ s_stack |-> m.s_stack, r_stack |-> m.r_stack,
           c_stack |-> m.c_stack, f_stack |-> m.f_stack,
           is_compiling |-> m.is_compiling,
           instruction_pointer |-> m.instruction_pointer,
           word_pointer |-> m.word_pointer,
           aborted_word_pointer |-> m.aborted_word_pointer,
           source_index |-> m.source_index, source_id |-> m.source_id,
           input_buffer |-> m.input_buffer ]
    ELSE m.tasks[i]

set_current_task(m, i) ==
    IF i \in TaskIds /\ i /= m.current_task
    THEN LET t == m.tasks[i]
         IN  [m EXCEPT !.tasks = [@ EXCEPT ![m.current_task] = Task_at(m, m.current_task),
                                           ![i] = Task_new_background],
                       !.current_task = i,
                       !.s_stack = t.s_stack, !.r_stack = t.r_stack,
                       !.c_stack = t.c_stack, !.f_stack = t.f_stack,
                       !.is_compiling = t.is_compiling,
                       !.instruction_pointer = t.instruction_pointer,
                       !.word_pointer = t.word_pointer,
                       !.aborted_word_pointer = t.aborted_word_pointer,
                       !.source_index = t.source_index,
                       !.source_id = t.source_id,
                       !.input_buffer = t.input_buffer]
    ELSE m

set_awake(m, i, v) ==
    IF i \in TaskIds THEN [m EXCEPT !.awake[i] = v] ELSE m

\* The search of pause from task i: the first awake task after it.
RECURSIVE pause_next(_, _)
pause_next(m, i) ==
    LET n == (i + 1) % NUM_TASKS
    IN  IF m.awake[n] THEN n ELSE pause_next(m, n)

\* pause that hands over to the task after the current one, awake or not.
pause_to_neighbour(m) ==
    set_current_task(m, (m.current_task + 1) % NUM_TASKS)

\* pause: the next awake task becomes the current one.  With no task
\* awake the loop of pause never ends: the VM spins inside the word.
pause(m) ==
    IF \A i \in TaskIds : ~m.awake[i] THEN [m EXCEPT !.spinning = TRUE]
    ELSE set_current_task(m, pause_next(m, m.current_task))

me(m) == [m EXCEPT !.s_stack = Stack_push(@, m.current_task + 1)]

\* (pop() - 1) as usize
TaskIndex(m) == AsUsize(Wrap(Stack_top(m.s_stack) - 1))

suspend(m) ==
    LET i  == TaskIndex(m)
        m1 == [m EXCEPT !.s_stack = Stack_drop(@, 1)]
    IN  IF i < NUM_TASKS THEN set_awake(m1, i, FALSE)
        ELSE abort_with(m1, "INVALID_NUMERIC_ARGUMENT")

resume(m) ==
    LET i  == TaskIndex(m)
        m1 == [m EXCEPT !.s_stack = Stack_drop(@, 1)]
    IN  IF i < NUM_TASKS THEN set_awake(m1, i, TRUE)
        ELSE abort_with(m1, "INVALID_NUMERIC_ARGUMENT")

\* activate that leaves the activated task as the current one.
activate_stays_there(m) ==
    LET i  == TaskIndex(m)
        m1 == [m EXCEPT !.s_stack = Stack_drop(@, 1)]
    IN  IF i < NUM_TASKS
        THEN LET m2 == set_awake(m1, i, TRUE)
                 ip == m2.instruction_pointer
                 m3 == reset(set_current_task(m2, i))
                 m5 == [m3 EXCEPT !.instruction_pointer = ip]
             IN  [m5 EXCEPT !.instruction_pointer = AsUsize(Stack_top(m5.r_stack)),
                            !.r_stack = Stack_drop(@, 1)]
        ELSE abort_with([m1 EXCEPT !.instruction_pointer = AsUsize(Stack_top(m1.r_stack)),
                                   !.r_stack = Stack_drop(@, 1)],
                        "INVALID_NUMERIC_ARGUMENT")

\* activate without the return of the activating task to its caller.
activate_runs_on(m) ==
    LET i  == TaskIndex(m)
        m1 == [m EXCEPT !.s_stack = Stack_drop(@, 1)]
    IN  IF i < NUM_TASKS
        THEN LET m2 == set_awake(m1, i, TRUE)
                 c  == m2.current_task
                 ip == m2.instruction_pointer
                 m3 == reset(set_current_task(m2, i))
                 m4 == [m3 EXCEPT !.instruction_pointer = ip]
             IN  set_current_task(m4, c)
        ELSE abort_with(m1, "INVALID_NUMERIC_ARGUMENT")

activate(m) ==
    LET i  == TaskIndex(m)
        m1 == [m EXCEPT !.s_stack = Stack_drop(@, 1)]
    IN  IF i < NUM_TASKS
        THEN LET m2 == set_awake(m1, i, TRUE)
                 c  == m2.current_task
                 ip == m2.instruction_pointer
                 m3 == reset(set_current_task(m2, i))
                 m4 == [m3 EXCEPT !.instruction_pointer = ip]
                 m5 == set_current_task(m4, c)
             IN  [m5 EXCEPT !.instruction_pointer = AsUsize(Stack_top(m5.r_stack)),
                            !.r_stack = Stack_drop(@, 1)]
        ELSE abort_with([m1 EXCEPT !.instruction_pointer = AsUsize(Stack_top(m1.r_stack)),
                                   !.r_stack = Stack_drop(@, 1)],
                        "INVALID_NUMERIC_ARGUMENT")

\* ----------------------------------------------------------------------
\* create, constant and does> (core.rs 2233-2244, 2296-2306, 2375-2405)
\* ----------------------------------------------------------------------

p_var(m) == SPush(m, WordAt(m, m.word_pointer).dfa)

p_const(m) == SPush(m, get_isize(m, WordAt(m, m.word_pointer).dfa))

create(m) == define(m, "p_var", "compile_var")

constant(m) ==
    LET v  == Stack_top(m.s_stack)
        m1 == define(SDrop(m, 1), "p_const", "compile_const")
    IN  IF m1.last_error = NoError THEN compile_isize(m1, v) ELSE m1

compile_comma(m) == compile_isize(SDrop(m, 1), Stack_top(m.s_stack))

\* does>: the XTs of _does and of exit are compiled.
does(m) ==
    LET m1 == compile_comma(SPush(m, m.references.idx__does))
    IN  compile_comma(SPush(m1, m1.references.idx_exit))

xdoes(m) ==
    LET word == WordAt(m, m.word_pointer)
        m1   == SPush(m, word.dfa)
    IN  SetIP(RPush(m1, m1.instruction_pointer), word.doer)

\* _does that compiles the doer and leaves the action of the word.
_does_leaves_action(m) ==
    LET doer == m.instruction_pointer + Cell
    IN  compile_usize(m, doer)

\* _does: the code after the exit that follows _does becomes the doer of
\* the most recent definition.
_does(m) ==
    LET doer == m.instruction_pointer + Cell
        m1   == compile_usize(m, doer)
    IN  [m1 EXCEPT !.words[m1.last + 1].action = "xdoes",
                   !.words[m1.last + 1].doer = doer]

\* The compilation semantics of word xt (the fn pointer of the header).
compilation_semantics(m, xt) ==
    IF WordAt(m, xt).cs = "compile_leave" THEN compile_leave(m, xt)
    ELSE compile_word(m, xt)

\* semicolon without the test of the forward set.
semicolon_ignoring_labels(m) ==
    LET m1 == IF m.c_stack.len /= 0
              THEN abort_with(m, "CONTROL_STRUCTURE_MISMATCH")
              ELSE LET m2 == compilation_semantics(m, m.references.idx_exit)
                   IN  [m2 EXCEPT !.words[m2.last + 1].hidden = FALSE]
    IN  left_bracket(m1)

semicolon(m) ==
    LET m1 == IF m.c_stack.len /= 0
              THEN abort_with(m, "CONTROL_STRUCTURE_MISMATCH")
              ELSE IF m.forward_bitset /= {}
              THEN abort_with(m, "CONTROL_STRUCTURE_MISMATCH")
              ELSE LET m2 == compilation_semantics(m, m.references.idx_exit)
                   IN  [m2 EXCEPT !.words[m2.last + 1].hidden = FALSE]
    IN  left_bracket(m1)

\* ----------------------------------------------------------------------
\* execute_word: the action of word i
\* ----------------------------------------------------------------------

execute_word(m, i) ==
    LET m1 == [m EXCEPT !.word_pointer = i]
    IN  IF i >= Wordlist_len(m1) THEN abort_with(m1, "UNSUPPORTED_OPERATION")
        ELSE LET a == WordAt(m1, i).action
             IN  CASE a = "noop" -> noop(m1)
                   [] a = "exit" -> exit(m1)
                   [] a = "lit" -> lit(m1)
                   [] a = "flit" -> flit(m1)
                   [] a = "branch" -> branch(m1)
                   [] a = "zero_branch" -> zero_branch(m1)
                   [] a = "_do" -> _do(m1)
                   [] a = "_qdo" -> _qdo(m1)
                   [] a = "_loop" -> _loop(m1)
                   [] a = "_plus_loop" -> _plus_loop(m1)
                   [] a = "unloop" -> unloop(m1)
                   [] a = "leave" -> leave(m1)
                   [] a = "p_i" -> p_i(m1)
                   [] a = "p_j" -> p_j(m1)
                   [] a = "p_to_r" -> p_to_r(m1)
                   [] a = "r_from" -> r_from(m1)
                   [] a = "dup" -> dup(m1)
                   [] a = "p_drop" -> p_drop(m1)
                   [] a = "swap" -> swap(m1)
                   [] a = "over" -> over(m1)
                   [] a = "equals" -> equals(m1)
                   [] a = "one_plus" -> one_plus(m1)
                   [] a = "plus" -> plus(m1)
                   [] a = "star" -> star(m1)
                   [] a = "slash_mod" -> slash_mod(m1)
                   [] a = "slash" -> slash(m1)
                   [] a = "p_mod" -> p_mod(m1)
                   [] a = "fetch" -> fetch(m1)
                   [] a = "store" -> store(m1)
                   [] a = "c_fetch" -> c_fetch(m1)
                   [] a = "c_store" -> c_store(m1)
                   [] a = "bye" -> bye(m1)
                   [] a = "left_bracket" -> left_bracket(m1)
                   [] a = "right_bracket" -> right_bracket(m1)
                   [] a = "semicolon" -> semicolon(m1)
                   [] a = "colon" -> colon(m1)
                   [] a = "nest" -> nest(m1)
                   [] a = "imm_if" -> imm_if(m1)
                   [] a = "imm_else" -> imm_else(m1)
                   [] a = "imm_then" -> imm_then(m1)
                   [] a = "imm_case" -> imm_case(m1)
                   [] a = "imm_of" -> imm_of(m1)
                   [] a = "imm_endof" -> imm_endof(m1)
                   [] a = "imm_endcase" -> imm_endcase(m1)
                   [] a = "imm_begin" -> imm_begin(m1)
                   [] a = "imm_while" -> imm_while(m1)
                   [] a = "imm_repeat" -> imm_repeat(m1)
                   [] a = "imm_until" -> imm_until(m1)
                   [] a = "imm_again" -> imm_again(m1)
                   [] a = "imm_clear_labels" -> imm_clear_labels(m1)
                   [] a = "imm_label" -> imm_label(m1)
                   [] a = "imm_goto" -> imm_goto(m1)
                   [] a = "imm_call" -> imm_call(m1)
                   [] a = "imm_do" -> imm_do(m1)
                   [] a = "imm_qdo" -> imm_qdo(m1)
                   [] a = "imm_loop" -> imm_loop(m1)
                   [] a = "imm_plus_loop" -> imm_plus_loop(m1)
                   [] a = "marker" -> marker(m1)
                   [] a = "unmark" -> unmark(m1)
                   [] a = "Core_here" -> Core_here(m1)
                   [] a = "Core_allot" -> Core_allot(m1)
                   [] a = "comma" -> comma(m1)
                   [] a = "pause" -> pause(m1)
                   [] a = "activate" -> activate(m1)
                   [] a = "me" -> me(m1)
                   [] a = "suspend" -> suspend(m1)
                   [] a = "resume" -> resume(m1)
                   [] a = "handler_store" -> handler_store(m1)
                   [] a = "abort" -> abort(m1)
                   [] a = "clear_stacks" -> clear_stacks(m1)
                   [] a = "reset" -> reset(m1)
                   [] a = "p_var" -> p_var(m1)
                   [] a = "p_const" -> p_const(m1)
                   [] a = "create" -> create(m1)
                   [] a = "constant" -> constant(m1)
                   [] a = "does" -> does(m1)
                   [] a = "xdoes" -> xdoes(m1)
                   [] a = "_does" -> _does(m1)

\* ----------------------------------------------------------------------
\* Outer interpreter (core.rs 1881-1950, 2047-2085)
\* ----------------------------------------------------------------------

\* evaluate_integer of a token that parses as the integer tok.n.
evaluate_integer(m, tok) ==
    IF m.is_compiling THEN compile_integer(m, tok.n) ELSE SPush(m, tok.n)

\* evaluate_float of a token that parses as the float tok.n.
evaluate_float(m, tok) ==
    IF m.references.idx_flit = 0 THEN set_error(m, "UNSUPPORTED_OPERATION")
    ELSE IF m.is_compiling THEN compile_float(m, tok.n)
    ELSE [m EXCEPT !.f_stack = Stack_push(@, tok.n)]

\* compile_token that executes every word it finds.
compile_token_executes_all(m) ==
    LET tok   == m.last_token
        found == IF tok.num \/ tok.flt THEN -1 ELSE find(m, tok.w)
    IN  IF found = -2 THEN Panic(m)
        ELSE IF found /= -1 THEN execute_word(m, found)
        ELSE IF tok.num THEN evaluate_integer(set_error(m, NoError), tok)
        ELSE abort_with(set_error(m, NoError), "UNDEFINED_WORD")

compile_token(m) ==
    LET tok   == m.last_token
        found == IF tok.num \/ tok.flt THEN -1 ELSE find(m, tok.w)
    IN  IF found = -2 THEN Panic(m)
        ELSE IF found /= -1
        THEN IF ~WordAt(m, found).is_immediate
             THEN compilation_semantics(m, found)
             ELSE execute_word(m, found)
        ELSE IF tok.num THEN evaluate_integer(set_error(m, NoError), tok)
        ELSE IF tok.flt
        THEN LET m1 == evaluate_float(set_error(m, NoError), tok)
             IN  IF m1.last_error = NoError THEN m1
                 ELSE abort_with(m1, "UNDEFINED_WORD")
        ELSE abort_with(set_error(m, NoError), "UNDEFINED_WORD")

\* interpret_token without the test of the compile-only flag.
interpret_token_runs_compile_only(m) ==
    LET tok   == m.last_token
        found == IF tok.num \/ tok.flt THEN -1 ELSE find(m, tok.w)
    IN  IF found = -2 THEN Panic(m)
        ELSE IF found /= -1 THEN execute_word(m, found)
        ELSE IF tok.num THEN evaluate_integer(set_error(m, NoError), tok)
        ELSE abort_with(set_error(m, NoError), "UNDEFINED_WORD")

interpret_token(m) ==
    LET tok   == m.last_token
        found == IF tok.num \/ tok.flt THEN -1 ELSE find(m, tok.w)
    IN  IF found = -2 THEN Panic(m)
        ELSE IF found /= -1
        THEN IF WordAt(m, found).is_compile_only
             THEN abort_with(m, "INTERPRETING_A_COMPILE_ONLY_WORD")
             ELSE execute_word(m, found)
        ELSE IF tok.num THEN evaluate_integer(set_error(m, NoError), tok)
        ELSE IF tok.flt
        THEN LET m1 == evaluate_float(set_error(m, NoError), tok)
             IN  IF m1.last_error = NoError THEN m1
                 ELSE abort_with(m1, "UNDEFINED_WORD")
        ELSE abort_with(set_error(m, NoError), "UNDEFINED_WORD")

\* ----------------------------------------------------------------------
\* Inner interpreter (core.rs 801-829)
\* ----------------------------------------------------------------------

\* The loop condition of run and forth.
InDataSpace(ip) == start <= ip /\ ip + Cell <= limit

\* An iteration that invokes the action before it advances the pointer.
forth_advances_after(m) ==
    LET ip == m.instruction_pointer
        w  == AsUsize(get_isize(m, ip))
        m1 == execute_word(m, w)
    IN  SetIP(m1, m1.instruction_pointer + Cell)

\* One iteration of run: forth().
forth(m) ==
    LET ip == m.instruction_pointer
        w  == AsUsize(get_isize(m, ip))
    IN  execute_word(SetIP(m, ip + Cell), w)


\* ----------------------------------------------------------------------
\* Construction: VM::new (rtf/src/main.rs 98-140) and add_core
\* (core.rs 544-721), restricted to the words the model executes.
\* ----------------------------------------------------------------------

\* The add_* calls of add_core in source order: <<kind, name, action>>.
CoreWords ==
    << <<"p", "", "noop">>, <<"p", "noop", "noop">>,
       <<"c", "exit", "exit">>, <<"c", "lit", "lit">>,
       <<"c", "flit", "flit">>,
       <<"c", "branch", "branch">>, <<"c", "0branch", "zero_branch">>,
       <<"c", "_do", "_do">>, <<"c", "_qdo", "_qdo">>,
       <<"c", "_loop", "_loop">>, <<"c", "_+loop", "_plus_loop">>,
       <<"c", "unloop", "unloop">>, <<"c", "leave", "leave">>,
       <<"c", "i", "p_i">>, <<"c", "j", "p_j">>,
       <<"c", ">r", "p_to_r">>, <<"c", "r>", "r_from">>,
       <<"p", "dup", "dup">>, <<"p", "drop", "p_drop">>,
       <<"p", "swap", "swap">>, <<"p", "over", "over">>,
       <<"p", "=", "equals">>, <<"p", "1+", "one_plus">>,
       <<"p", "+", "plus">>, <<"p", "*", "star">>,
       <<"p", "/mod", "slash_mod">>,
       <<"p", "@", "fetch">>, <<"p", "!", "store">>,
       <<"p", "here", "Core_here">>, <<"p", "allot", "Core_allot">>,
       <<"p", "c@", "c_fetch">>, <<"p", "c!", "c_store">>,
       <<"i", "[", "left_bracket">>, <<"ic", ";", "semicolon">>,
       <<"ic", "if", "imm_if">>, <<"ic", "else", "imm_else">>,
       <<"ic", "then", "imm_then">>, <<"ic", "case", "imm_case">>,
       <<"ic", "of", "imm_of">>, <<"ic", "endof", "imm_endof">>,
       <<"ic", "endcase", "imm_endcase">>, <<"ic", "begin", "imm_begin">>,
       <<"ic", "while", "imm_while">>, <<"ic", "repeat", "imm_repeat">>,
       <<"ic", "until", "imm_until">>, <<"ic", "again", "imm_again">>,
       <<"i", "0labels", "imm_clear_labels">>, <<"ic", "label", "imm_label">>,
       <<"ic", "goto", "imm_goto">>, <<"ic", "call", "imm_call">>,
       <<"ic", "do", "imm_do">>, <<"ic", "?do", "imm_qdo">>,
       <<"ic", "loop", "imm_loop">>, <<"ic", "+loop", "imm_plus_loop">>,
       <<"p", "/", "slash">>, <<"p", "mod", "p_mod">>,
       <<"p", ":", "colon">>, <<"p", "]", "right_bracket">>,
       <<"p", ",", "comma">>, <<"p", "marker", "marker">>,
       <<"p", "handler!", "handler_store">>,
       <<"p", "0stacks", "clear_stacks">>, <<"p", "reset", "reset">>,
       <<"p", "abort", "abort">>, <<"p", "bye", "bye">>,
       <<"c", "pause", "pause">>, <<"c", "activate", "activate">>,
       <<"p", "me", "me">>, <<"p", "suspend", "suspend">>,
       <<"p", "resume", "resume">> >>

\* The VM record of VM::new before add_core.
VM_new ==
    [ mem |-> [a \in Addrs |-> IF a = BASE_ADDR + Cell THEN 10 ELSE 0],
      here |-> BASE_ADDR + 2 * Cell,
      panicked |-> FALSE,
      words |-> << >>,
      last |-> 0,
      buckets |-> [b \in 0..(BUCKET_SIZE - 1) |-> 0],
      temp_buckets |-> [b \in 0..(BUCKET_SIZE - 1) |-> 0],
      s_stack |-> Stack_new(IntCanary),
      r_stack |-> Stack_new(IntCanary),
      c_stack |-> Stack_new(ControlCanary),
      f_stack |-> Stack_new(FloatCanary),
      is_compiling |-> FALSE,
      instruction_pointer |-> 0,
      word_pointer |-> 0,
      aborted_word_pointer |-> 0,
      source_index |-> 0,
      last_error |-> NoError,
      handler |-> 0,
      labels |-> << >>,
      forward_bitset |-> {},
      resolved_bitset |-> {},
      input_buffer |-> << >>,
      last_token |-> EmptyToken,
      source_id |-> 0,
      current_task |-> 0,
      awake |-> [i \in 0..(NUM_TASKS - 1) |-> FALSE],
      tasks |-> [i \in 0..(NUM_TASKS - 1) |->
                   [ s_stack |-> Stack_new(IntCanary),
                     r_stack |-> Stack_new(IntCanary),
                     c_stack |-> Stack_new(ControlCanary),
                     f_stack |-> Stack_new(FloatCanary),
                     is_compiling |-> FALSE, instruction_pointer |-> 0,
                     word_pointer |-> 0, aborted_word_pointer |-> 0,
                     source_index |-> 0, source_id |-> 0,
                     input_buffer |-> << >> ]],
      spinning |-> FALSE,
      references |-> [ idx_lit |-> 0, idx_flit |-> 0, idx_exit |-> 0, idx_zero_branch |-> 0,
                       idx_branch |-> 0, idx_do |-> 0, idx_qdo |-> 0,
                       idx_loop |-> 0, idx_plus_loop |-> 0, idx_over |-> 0,
                       idx_equal |-> 0, idx_drop |-> 0, idx_to_r |-> 0 ] ]

RECURSIVE add_words(_, _)
add_words(m, k) ==
    IF k > Len(CoreWords) THEN m
    ELSE LET e == CoreWords[k]
             m1 == CASE e[1] = "p"  -> add_primitive(m, e[2], e[3])
                     [] e[1] = "c"  -> add_compile_only(m, e[2], e[3])
                     [] e[1] = "i"  -> add_immediate(m, e[2], e[3])
                     [] e[1] = "ic" -> add_immediate_and_compile_only(m, e[2], e[3])
         IN  IF m1.panicked THEN m1 ELSE add_words(m1, k + 1)

\* `leave` compiles itself through compile_leave.
patch_compilation_semanticses(m) ==
    [m EXCEPT !.words[find(m, "leave") + 1].cs = "compile_leave"]

add_core(m) ==
    LET m1 == add_words(m, 1)
        m2 == [m1 EXCEPT !.references =
                 [ idx_lit |-> find(m1, "lit"), idx_flit |-> find(m1, "flit"),
                   idx_exit |-> find(m1, "exit"),
                   idx_zero_branch |-> find(m1, "0branch"),
                   idx_branch |-> find(m1, "branch"),
                   idx_do |-> find(m1, "_do"), idx_qdo |-> find(m1, "_qdo"),
                   idx_loop |-> find(m1, "_loop"),
                   idx_plus_loop |-> find(m1, "_+loop"),
                   idx_over |-> find(m1, "over"), idx_equal |-> find(m1, "="),
                   idx_drop |-> find(m1, "drop"), idx_to_r |-> find(m1, ">r") ]]
    IN  [patch_compilation_semanticses(m2) EXCEPT !.awake[0] = TRUE]

\* The machine the REPL starts with.
VM0 == add_core(VM_new)


\* ----------------------------------------------------------------------
\* State
\* ----------------------------------------------------------------------

VARIABLES
    mem, here, panicked,            \* DataSpace: cells, len, and a panic flag
    words, last,                    \* Wordlist: headers and `last`
    buckets, temp_buckets,          \* Wordlist: bucket heads and their copy
    s_stack, r_stack, c_stack,      \* the stacks of the current task
    f_stack,
    is_compiling, instruction_pointer, word_pointer,
    aborted_word_pointer, source_index,          \* State
    last_error, handler,
    labels, forward_bitset, resolved_bitset,     \* the label table
    input_buffer, last_token,
    references,
    source_id,
    current_task, awake, tasks,     \* the multitasker
    spinning,                       \* inside a loop of a word that never ends
    phase                           \* position inside evaluate_input

vars ==
    << mem, here, panicked, words, last, buckets, temp_buckets,
       s_stack, r_stack, c_stack, f_stack, is_compiling, instruction_pointer,
       word_pointer, aborted_word_pointer, source_index, last_error, handler, labels, forward_bitset,
       resolved_bitset, input_buffer, last_token, references, source_id,
       current_task, awake, tasks, spinning, phase >>

\* The VM record of the current state.
VM ==
    [ mem |-> mem, here |-> here, panicked |-> panicked, words |-> words,
      last |-> last, buckets |-> buckets, temp_buckets |-> temp_buckets,
      s_stack |-> s_stack, r_stack |-> r_stack,
      c_stack |-> c_stack, f_stack |-> f_stack,
      is_compiling |-> is_compiling,
      instruction_pointer |-> instruction_pointer,
      word_pointer |-> word_pointer,
      aborted_word_pointer |-> aborted_word_pointer,
      source_index |-> source_index, last_error |-> last_error,
      handler |-> handler, labels |-> labels,
      forward_bitset |-> forward_bitset, resolved_bitset |-> resolved_bitset,
      input_buffer |-> input_buffer, last_token |-> last_token,
      references |-> references, source_id |-> source_id,
      current_task |-> current_task, awake |-> awake, tasks |-> tasks,
      spinning |-> spinning ]

\* The next state holds the VM record m.
Becomes(m) ==
    /\ mem' = m.mem /\ here' = m.here /\ panicked' = m.panicked
    /\ words' = m.words /\ last' = m.last
    /\ buckets' = m.buckets /\ temp_buckets' = m.temp_buckets
    /\ s_stack' = m.s_stack /\ r_stack' = m.r_stack /\ c_stack' = m.c_stack
    /\ f_stack' = m.f_stack
    /\ is_compiling' = m.is_compiling
    /\ instruction_pointer' = m.instruction_pointer
    /\ word_pointer' = m.word_pointer
    /\ aborted_word_pointer' = m.aborted_word_pointer
    /\ source_index' = m.source_index
    /\ last_error' = m.last_error /\ handler' = m.handler
    /\ labels' = m.labels
    /\ forward_bitset' = m.forward_bitset
    /\ resolved_bitset' = m.resolved_bitset
    /\ input_buffer' = m.input_buffer /\ last_token' = m.last_token
    /\ references' = m.references
    /\ source_id' = m.source_id /\ current_task' = m.current_task
    /\ awake' = m.awake /\ tasks' = m.tasks /\ spinning' = m.spinning

\* The current state holds the VM record m.
Holds(m) ==
    /\ mem = m.mem /\ here = m.here /\ panicked = m.panicked
    /\ words = m.words /\ last = m.last
    /\ buckets = m.buckets /\ temp_buckets = m.temp_buckets
    /\ s_stack = m.s_stack /\ r_stack = m.r_stack /\ c_stack = m.c_stack
    /\ f_stack = m.f_stack
    /\ is_compiling = m.is_compiling
    /\ instruction_pointer = m.instruction_pointer
    /\ word_pointer = m.word_pointer
    /\ aborted_word_pointer = m.aborted_word_pointer
    /\ source_index = m.source_index
    /\ last_error = m.last_error /\ handler = m.handler
    /\ labels = m.labels
    /\ forward_bitset = m.forward_bitset
    /\ resolved_bitset = m.resolved_bitset
    /\ input_buffer = m.input_buffer /\ last_token = m.last_token
    /\ references = m.references
    /\ source_id = m.source_id /\ current_task = m.current_task
    /\ awake = m.awake /\ tasks = m.tasks /\ spinning = m.spinning

\* set_source: the input buffer is replaced by the line, tokenized.
set_source(m, line) ==
    [m EXCEPT !.input_buffer = line, !.source_index = 0]

\* ----------------------------------------------------------------------
\* evaluate_input (core.rs 2017-2040), one action per step of its loop
\* ----------------------------------------------------------------------

\* parse_word, then compile_token or interpret_token.  The loop is left on
\* an empty token and on an error; otherwise run() follows.
EvalToken ==
    /\ phase = "token" /\ ~panicked /\ ~spinning
    /\ LET m1 == parse_word(VM)
       IN  IF m1.last_token = EmptyToken
           THEN Becomes(m1) /\ phase' = "idle"
           ELSE /\ Becomes(IF m1.is_compiling THEN compile_token(m1)
                           ELSE interpret_token(m1))
                /\ phase' = IF last_error' /= NoError THEN "idle" ELSE "run"

\* One iteration of the loop of run().
Forth ==
    /\ phase = "run" /\ ~panicked /\ ~spinning
    /\ InDataSpace(instruction_pointer)
    /\ Becomes(forth(VM))
    /\ UNCHANGED phase

\* run() returns; check_stacks; the loop is left on an error.
EndRun ==
    /\ phase = "run" /\ ~panicked /\ ~spinning
    /\ ~InDataSpace(instruction_pointer)
    /\ Becomes(check_stacks(VM))
    /\ phase' = IF last_error' /= NoError THEN "idle" ELSE "token"


\* ----------------------------------------------------------------------
\* Input lines
\* ----------------------------------------------------------------------

\* Most literals in one branch of a control structure.
MaxBody == 2

\* Most of-clauses in a case.
MaxClauses == 2

\* Largest trip count of a do-loop.
MaxTrip == 3

\* Most phrases typed after the name of a definition.
MaxPhrases == 4

\* k literals base+1 .. base+k, as tokens and as the values they push.
Lits(k, base) == [i \in 1..k |-> Num(base + i)]

LitValues(k, base) == [i \in 1..k |-> base + i]

\* `[ n ]`: n is put on the parameter stack while compiling.
Bracket(n) == <<Tok("["), Num(n), Tok("]")>>

\* body, or body inside `1 if ... then`.
Enclose(e, body) ==
    IF e THEN <<Num(1), Tok("if")>> \o body \o <<Tok("then")>> ELSE body

Header == <<Tok(":"), Tok("t")>>

\* `: t body ;` and `: t body ; t`.
Compiled(body) == Header \o body \o <<Tok(";")>>

Executed(body) == Compiled(body) \o <<Tok("t")>>

Flags == {0, 1, -1}

\* : t f if A then 33 ; t     and     : t f if A else B then 33 ; t
IfLine(e, f, na, nb, el) ==
    Executed(Enclose(e,
        <<Num(f), Tok("if")>> \o Lits(na, 10)
            \o (IF el THEN <<Tok("else")>> \o Lits(nb, 20) ELSE << >>)
            \o <<Tok("then"), Num(33)>>))

IfLines ==
    { IfLine(e, f, na, 0, FALSE) : e \in BOOLEAN, f \in Flags, na \in 0..MaxBody }
    \cup
    { IfLine(x[1], x[2], x[3], x[4], TRUE) :
        x \in BOOLEAN \X Flags \X (0..MaxBody) \X (0..MaxBody) }

LoopKinds == {"again", "until", "repeat"}

\* : t begin A again ;    : t begin A until ;    : t begin A while B repeat ;
BeginLine(e, kind, na, nb) ==
    Compiled(Enclose(e,
        <<Tok("begin")>> \o Lits(na, 10)
            \o (IF kind = "repeat" THEN <<Tok("while")>> \o Lits(nb, 20) ELSE << >>)
            \o <<Tok(kind)>>))

BeginLines ==
    { BeginLine(x[1], x[2], x[3], x[4]) :
        x \in BOOLEAN \X LoopKinds \X (0..MaxBody) \X (0..MaxBody) }

\* Clause j of a case: j of 10+j endof
Clauses(k) ==
    [i \in 1..(4 * k) |->
        LET j == ((i - 1) \div 4) + 1
        IN  CASE i % 4 = 1 -> Num(j)
              [] i % 4 = 2 -> Tok("of")
              [] i % 4 = 3 -> Num(10 + j)
              [] i % 4 = 0 -> Tok("endof")]

\* : t x case 1 of 11 endof ... k of 10+k endof endcase ; t
CaseLine(e, x, k) ==
    Executed(Enclose(e, <<Num(x), Tok("case")>> \o Clauses(k) \o <<Tok("endcase")>>))

CaseLines ==
    { CaseLine(x[1], x[2], x[3]) :
        x \in BOOLEAN \X (0..(MaxClauses + 1)) \X (0..MaxClauses) }

\* A subroutine at label 2 called from behind it:
\*   : t [ 1 ] goto [ 2 ] label A exit [ 1 ] label P [ 2 ] call Q ; t
\* and a subroutine at label 1 called from before it:
\*   : t P [ 1 ] call Q exit [ 1 ] label A ; t
CallLine(fwd, na, np, nq) ==
    IF fwd
    THEN Executed(Lits(np, 20) \o Bracket(1) \o <<Tok("call")>> \o Lits(nq, 30)
            \o <<Tok("exit")>> \o Bracket(1) \o <<Tok("label")>> \o Lits(na, 10))
    ELSE Executed(Bracket(1) \o <<Tok("goto")>> \o Bracket(2) \o <<Tok("label")>>
            \o Lits(na, 10) \o <<Tok("exit")>> \o Bracket(1) \o <<Tok("label")>>
            \o Lits(np, 20) \o Bracket(2) \o <<Tok("call")>> \o Lits(nq, 30))

CallLines ==
    { CallLine(x[1], x[2], x[3], x[4]) :
        x \in BOOLEAN \X (0..MaxBody) \X (0..MaxBody) \X (0..MaxBody) }

\* : t 1 n 0 do 1+ loop ; t
DoLoopLine(n) ==
    Executed(<<Num(1), Num(n), Num(0), Tok("do"), Tok("1+"), Tok("loop")>>)

DoLoopLines == { DoLoopLine(n) : n \in 0..MaxTrip }

Starts == {-1, 0, 2}

\* : t L S do i loop ; t
DoILine(S, L) == Executed(<<Num(L), Num(S), Tok("do"), Tok("i"), Tok("loop")>>)

DoILines == { DoILine(S, S + n) : S \in Starts, n \in 1..MaxTrip }

\* : t L1 S1 do L2 S2 do i j loop loop ; t
DoJLine(S1, L1, S2, L2) ==
    Executed(<<Num(L1), Num(S1), Tok("do"), Num(L2), Num(S2), Tok("do"),
               Tok("i"), Tok("j"), Tok("loop"), Tok("loop")>>)

DoJLines ==
    { DoJLine(x[1], x[1] + x[2], x[3], x[3] + x[4]) :
        x \in Starts \X (1..MaxTrip) \X Starts \X (1..MaxTrip) }

\* : t L 0 do i K = if leave then 7 loop 9 ; t
\* with `1 +loop` for `loop` (pl), and inside `2 0 do ... 8 loop` (nested).
LeaveLine(pl, nested, L, K) ==
    LET inner == <<Num(L), Num(0), Tok("do"), Tok("i"), Num(K), Tok("="),
                   Tok("if"), Tok("leave"), Tok("then"), Num(7)>>
                    \o (IF pl THEN <<Num(1), Tok("+loop")>> ELSE <<Tok("loop")>>)
    IN  Executed((IF nested
                  THEN <<Num(2), Num(0), Tok("do")>> \o inner \o <<Num(8), Tok("loop")>>
                  ELSE inner) \o <<Num(9)>>)

LeaveLines ==
    { LeaveLine(x[1], x[2], x[3], x[4]) :
        x \in BOOLEAN \X BOOLEAN \X (1..MaxTrip) \X (0..MaxTrip) }

\* : t 129 0 do v loop ; t      where v is a literal or the word i:
\* one cell more than the length test of underflow() lets pass is pushed
\* before evaluate_input checks the stacks again.
PushLine(v) ==
    Executed(<<Num(UnderflowLen + 1), Num(0), Tok("do"), v, Tok("loop")>>)

\* The values pushed: a literal, the canary among them, or the loop index.
PushTokens == { Num(0), Num(-1), Num(IntCanary), Tok("i") }

PushLines == { PushLine(v) : v \in PushTokens }

Lines ==
    IfLines \cup BeginLines \cup CaseLines \cup CallLines \cup DoLoopLines
        \cup DoILines \cup DoJLines \cup LeaveLines \cup PushLines

\* ----------------------------------------------------------------------
\* The interpreter on one line of input
\* ----------------------------------------------------------------------

Init ==
    /\ \E line \in Lines : Holds(set_source(VM0, line))
    /\ phase = "token"

Next == EvalToken \/ Forth \/ EndRun

Spec == Init /\ [][Next]_vars


\* ----------------------------------------------------------------------
\* The interpreter on a definition that is typed phrase by phrase.
\* evaluate_input reads only the token at source_index, so the rest of the
\* line can be chosen when the loop reaches it: a line is `: t` followed by
\* at most MaxPhrases phrases, and it ends where no phrase is added.
\* ----------------------------------------------------------------------

ControlWords ==
    { "if", "else", "then", "begin", "while", "repeat", "until", "again",
      "do", "?do", "loop", "+loop", "leave", "case", "of", "endof",
      "endcase", ";" }

ControlPhrases == { <<Tok(w)>> : w \in ControlWords }

LabelArgs == {0, 1, 999, 1000, -1}

LabelWords == {"label", "goto", "call"}

LabelPhrases ==
    { <<Tok(w)>> : w \in {"if", "then", "0labels", ";"} }
    \cup { Bracket(n) \o <<Tok(w)>> : n \in LabelArgs, w \in LabelWords }

\* The phrases of a line: its words other than `[ n ]`.
PhraseCount(line) ==
    Cardinality({ k \in 3..Len(line) :
                    ~line[k].num /\ line[k].w \notin {"[", "]"} })

\* The line continues with phrase p.
Typed(p) ==
    /\ phase = "token" /\ ~panicked /\ ~spinning
    /\ source_index = Len(input_buffer)
    /\ is_compiling
    /\ PhraseCount(input_buffer) < MaxPhrases
    /\ input_buffer' = input_buffer \o p
    /\ UNCHANGED << mem, here, panicked, words, last, buckets, temp_buckets,
                    s_stack, r_stack, c_stack, f_stack, is_compiling,
                    instruction_pointer, word_pointer,
                    aborted_word_pointer, source_index, last_error, handler,
                    labels, forward_bitset, resolved_bitset, last_token,
                    references, source_id, current_task, awake, tasks,
                    spinning, phase >>

TypeControl == \E p \in ControlPhrases : Typed(p)

TypeLabel == \E p \in LabelPhrases : Typed(p)

InitTyped ==
    /\ Holds(set_source(VM0, Header))
    /\ phase = "token"

\* While a definition is compiled run() has nothing to execute, so the
\* specifications of typed definitions have no Forth step.
NextControl == EvalToken \/ EndRun \/ TypeControl

SpecControl == InitTyped /\ [][NextControl]_vars

NextLabels == EvalToken \/ EndRun \/ TypeLabel

SpecLabels == InitTyped /\ [][NextLabels]_vars

\* run() finds nothing to execute while a definition is being typed.
NothingToRun == phase = "run" => ~InDataSpace(instruction_pointer)


\* ----------------------------------------------------------------------
\* Properties
\* ----------------------------------------------------------------------

\* Address of cell k of the body of the latest definition.
BodyAddr(k) == WordAt(VM, last).dfa + k * Cell

\* This step of evaluate_input consumes the word w.
Consumes(w) ==
    /\ phase = "token"
    /\ source_index < Len(input_buffer)
    /\ input_buffer[source_index + 1] = Tok(w)
    /\ source_index' = source_index + 1

\* C1: when `;` executes with an empty control stack and no label marked
\* forward it compiles one exit cell and unhides the latest definition;
\* otherwise it aborts with CONTROL_STRUCTURE_MISMATCH, compiles nothing and
\* leaves the definition hidden.  Either way the task interprets afterwards.
SemicolonContract ==
    [][ (Consumes(";") /\ is_compiling) =>
          /\ ~is_compiling'
          /\ IF c_stack.len = 0 /\ forward_bitset = {}
             THEN /\ last_error' = NoError
                  /\ here' = here + Cell
                  /\ mem' = [mem EXCEPT ![here] = references.idx_exit]
                  /\ ~words'[last + 1].hidden
             ELSE /\ last_error' = "CONTROL_STRUCTURE_MISMATCH"
                  /\ here' = here
                  /\ mem' = mem
                  /\ words'[last + 1].hidden ]_vars

\* `: t [ 1 ] goto ;` was refused for the unresolved label alone.
SemicolonRefusesForwardLabel ==
    /\ input_buffer = Header \o Bracket(1) \o <<Tok("goto"), Tok(";")>>
    /\ source_index = Len(input_buffer)
    /\ last_error = "CONTROL_STRUCTURE_MISMATCH"
    /\ forward_bitset = {1}
    /\ WordAt(VM, last).hidden
    /\ ~is_compiling

\* The constructs that are open after tokens 3..k of a line of control
\* words, innermost last, by the nesting rules of the control words.
RECURSIVE Open(_, _)
Open(line, k) ==
    IF k < 3 THEN << >>
    ELSE LET o == Open(line, k - 1)
             w == line[k].w
             Pop(n) == SubSeq(o, 1, Len(o) - n)
             cases == { c \in 1..Len(o) : o[c] = "case" }
         IN  CASE w \in {"if", "begin", "while", "case", "of"} -> Append(o, w)
               [] w \in {"do", "?do"} -> Append(o, "do")
               [] w \in {"else", "endof"} -> Append(Pop(1), w)
               [] w \in {"then", "until", "again", "loop", "+loop"} -> Pop(1)
               [] w = "repeat" -> Pop(2)
               [] w = "endcase" ->
                    IF cases = {} THEN << >>
                    ELSE SubSeq(o, 1, (CHOOSE c \in cases : \A d \in cases : d <= c) - 1)
               [] OTHER -> o

\* The open constructs o are what the word w closes or continues.
Balanced(w, o) ==
    LET top == IF o = << >> THEN "" ELSE o[Len(o)]
    IN  CASE w = "else" -> top = "if"
          [] w = "then" -> top \in {"if", "else"}
          [] w \in {"until", "again"} -> top = "begin"
          [] w = "repeat" -> Len(o) >= 2 /\ top = "while" /\ o[Len(o) - 1] = "begin"
          [] w \in {"loop", "+loop"} -> top = "do"
          [] w \in {"of", "endcase"} -> top \in {"case", "endof"}
          [] w = "endof" -> top = "of"
          [] w = "leave" -> \E c \in 1..Len(o) : o[c] = "do"
          [] OTHER -> TRUE

\* C2: a closing or middle control word that does not find the construct
\* it belongs to (or finds none), and `leave` outside every do-loop, abort
\* with CONTROL_STRUCTURE_MISMATCH; and `;` with a construct still open
\* aborts with CONTROL_STRUCTURE_MISMATCH.
UnbalancedIsReported ==
    source_index >= 3 =>
        LET w == input_buffer[source_index].w
            o == Open(input_buffer, source_index - 1)
        IN  /\ ~Balanced(w, o) => last_error = "CONTROL_STRUCTURE_MISMATCH"
            /\ (w = ";" /\ o /= << >>) =>
                  /\ last_error = "CONTROL_STRUCTURE_MISMATCH"
                  /\ WordAt(VM, last).hidden

\* `: t begin if repeat` was refused: repeat found an If marker, not While.
RepeatWithoutWhileRefused ==
    /\ input_buffer = Header \o <<Tok("begin"), Tok("if"), Tok("repeat")>>
    /\ source_index = Len(input_buffer)
    /\ last_error = "CONTROL_STRUCTURE_MISMATCH"


\* Cells and tokens of the enclosing `1 if`.
PreCells(e) == IF e THEN 4 ELSE 0

PreTokens(e) == IF e THEN 2 ELSE 0

\* The markers of the enclosing structure.
Enclosing(e) == IF e THEN <<Control("If", BodyAddr(4), 0)>> ELSE << >>

\* C3: in `f if A then` and `f if A else B then` the 0branch of `if` is
\* patched to the first cell after A (no else) or to the first cell of B,
\* the branch of `else` to the first cell after B, and after `then` the
\* control stack is as before `if`; run with flag f the word executes A iff
\* f is non-zero, else B, and continues after `then`.
IfElseThenCompiles ==
    \A e \in BOOLEAN, f \in Flags, na \in 0..MaxBody, nb \in 0..MaxBody,
       el \in BOOLEAN :
        input_buffer = IfLine(e, f, na, IF el THEN nb ELSE 0, el) =>
            LET pre     == PreCells(e)
                ifIdx   == 2 + PreTokens(e) + 2
                thenIdx == ifIdx + na + (IF el THEN 1 + nb ELSE 0) + 1
                ifOp    == BodyAddr(pre + 3)
                afterA  == BodyAddr(pre + 4 + 2 * na)
                elseOp  == BodyAddr(pre + 5 + 2 * na)
                firstB  == BodyAddr(pre + 6 + 2 * na)
                afterB  == BodyAddr(pre + 6 + 2 * na + 2 * nb)
            IN  /\ source_index = ifIdx - 1 =>
                      Stack_as_slice(c_stack) = Enclosing(e)
                /\ source_index >= thenIdx =>
                      /\ last_error = NoError
                      /\ mem[ifOp - Cell] = references.idx_zero_branch
                      /\ mem[ifOp] = IF el THEN firstB ELSE afterA
                      /\ el => /\ mem[elseOp - Cell] = references.idx_branch
                               /\ mem[elseOp] = afterB
                /\ source_index = thenIdx =>
                      /\ Stack_as_slice(c_stack) = Enclosing(e)
                      /\ here = IF el THEN afterB ELSE afterA
                /\ phase = "idle" =>
                      /\ source_index = Len(input_buffer)
                      /\ Stack_as_slice(s_stack) =
                            (IF f /= 0 THEN LitValues(na, 10)
                             ELSE IF el THEN LitValues(nb, 20) ELSE << >>)
                                \o <<33>>

\* `: t 1 if 0 if 11 12 else 21 22 then 33 then ; t` has run B only.
ElseBranchRan ==
    /\ input_buffer = IfLine(TRUE, 0, 2, 2, TRUE)
    /\ phase = "idle"
    /\ Stack_as_slice(s_stack) = <<21, 22, 33>>

\* C4: the branch of `again` and of `repeat` and the 0branch of `until`
\* hold the address recorded by `begin`; the 0branch of `while` is patched
\* by `repeat` to the cell after the branch of `repeat`; after the closer
\* the control stack is as before `begin`.
BeginLoopsCompile ==
    \A e \in BOOLEAN, kind \in LoopKinds, na \in 0..MaxBody, nb \in 0..MaxBody :
        input_buffer = BeginLine(e, kind, na, nb) =>
            LET pre      == PreCells(e)
                beginIdx == 2 + PreTokens(e) + 1
                closeIdx == beginIdx + na + (IF kind = "repeat" THEN 1 + nb ELSE 0) + 1
                beginAt  == BodyAddr(pre)
                whileOp  == BodyAddr(pre + 2 * na + 1)
                nB       == IF kind = "repeat" THEN 2 + 2 * nb ELSE 0
                closeOp  == BodyAddr(pre + 2 * na + nB + 1)
            IN  /\ source_index = beginIdx - 1 =>
                      Stack_as_slice(c_stack) = Enclosing(e)
                /\ source_index >= closeIdx =>
                      /\ last_error = NoError
                      /\ mem[closeOp - Cell] =
                            (IF kind = "until" THEN references.idx_zero_branch
                             ELSE references.idx_branch)
                      /\ mem[closeOp] = beginAt
                      /\ kind = "repeat" =>
                            /\ mem[whileOp - Cell] = references.idx_zero_branch
                            /\ mem[whileOp] = closeOp + Cell
                /\ source_index = closeIdx =>
                      /\ Stack_as_slice(c_stack) = Enclosing(e)
                      /\ here = closeOp + Cell

\* `: t 1 if begin 11 12 while 21 22 repeat then ;` is compiled.
WhileRepeatCompiled ==
    /\ input_buffer = BeginLine(TRUE, "repeat", 2, 2)
    /\ phase = "idle"
    /\ last_error = NoError
    /\ mem[BodyAddr(9)] = BodyAddr(16)
    /\ mem[BodyAddr(15)] = BodyAddr(4)

\* C5: in a case with k >= 0 clauses the 0branch of each `of` is patched by
\* its `endof` to the cell after the branch of that `endof`, the branch of
\* every `endof` is patched by `endcase` to the cell after the drop of
\* `endcase`, and `endcase` pops the Endof markers and the Case marker of
\* its case and no marker of an enclosing structure.
CaseCompiles ==
    \A e \in BOOLEAN, x \in 0..(MaxClauses + 1), k \in 0..MaxClauses :
        input_buffer = CaseLine(e, x, k) =>
            LET pre        == PreCells(e) + 2
                caseIdx    == 2 + PreTokens(e) + 2
                endcaseIdx == caseIdx + 4 * k + 1
                clause(j)  == pre + 11 * (j - 1)
                dropAt     == BodyAddr(pre + 11 * k)
            IN  /\ \A j \in 1..k :
                      /\ source_index >= caseIdx + 4 * j =>
                            /\ mem[BodyAddr(clause(j) + 4)] = references.idx_zero_branch
                            /\ mem[BodyAddr(clause(j) + 5)] = BodyAddr(clause(j) + 11)
                      /\ source_index = caseIdx + 4 * j =>
                            /\ here = BodyAddr(clause(j) + 11)
                            /\ c_stack.len = Len(Enclosing(e)) + 1 + j
                      /\ source_index >= endcaseIdx =>
                            /\ mem[BodyAddr(clause(j) + 9)] = references.idx_branch
                            /\ mem[BodyAddr(clause(j) + 10)] = dropAt + Cell
                /\ source_index >= endcaseIdx =>
                      /\ last_error = NoError
                      /\ mem[dropAt] = references.idx_drop
                /\ source_index = endcaseIdx =>
                      /\ here = dropAt + Cell
                      /\ Stack_as_slice(c_stack) = Enclosing(e)
                /\ phase = "idle" =>
                      /\ source_index = Len(input_buffer)
                      /\ Stack_as_slice(s_stack) =
                            IF x \in 1..k THEN <<10 + x>> ELSE << >>

\* A case of MaxClauses clauses inside `1 if ... then` selected its first.
CaseSelectsFirstClause ==
    /\ input_buffer = CaseLine(TRUE, 1, MaxClauses)
    /\ phase = "idle"
    /\ Stack_as_slice(s_stack) = <<11>>


\* Cells that a phrase word of a typed definition compiles; `[ n ]` is
\* interpreted and compiles none.
CellsOf(tok) ==
    CASE tok = Tok("if") -> 2
      [] tok = Tok("goto") -> 2
      [] tok = Tok("call") -> 5
      [] tok = Tok(";") -> 1
      [] OTHER -> 0

\* Cells compiled by tokens 3..k-1 of the line: where token k compiles.
RECURSIVE CellsBefore(_, _)
CellsBefore(line, k) ==
    IF k <= 3 THEN 0 ELSE CellsBefore(line, k - 1) + CellsOf(line[k - 1])

\* Index of the last `0labels` before token k, or 0.
LastClear(line, k) ==
    LET cs == { j \in 1..(k - 1) : line[j] = Tok("0labels") }
    IN  IF cs = {} THEN 0 ELSE CHOOSE j \in cs : \A i \in cs : i <= j

\* The `[ n ] goto` and `[ n ] call` before token k since the last 0labels,
\* and the `[ n ] label` among the same tokens.
Refs(line, n, k) ==
    { j \in (LastClear(line, k) + 1)..(k - 1) :
        line[j] \in {Tok("goto"), Tok("call")} /\ line[j - 2] = Num(n) }

Marks(line, n, k) ==
    { j \in (LastClear(line, k) + 1)..(k - 1) :
        line[j] = Tok("label") /\ line[j - 2] = Num(n) }

\* The branch operand cell of the goto or call at token j.
OperandOf(line, j) ==
    BodyAddr(CellsBefore(line, j) + (IF line[j] = Tok("goto") THEN 1 ELSE 4))

\* C6: `label n` for a label that earlier goto n / call n left forward puts
\* its address (here) into the branch operand of every one of them, sets
\* labels[n] to it and moves n from the forward to the resolved set; a
\* goto n after the label compiles a branch to labels[n].
LabelResolvesChain ==
    source_index >= 6 =>
        LET line == input_buffer
            k    == source_index
            n    == line[k - 2].n
            at   == BodyAddr(CellsBefore(line, k))
        IN  /\ (line[k] = Tok("label") /\ Refs(line, n, k) /= {}
                    /\ Marks(line, n, k) = {}) =>
                  /\ last_error = NoError
                  /\ here = at
                  /\ \A j \in Refs(line, n, k) : mem[OperandOf(line, j)] = at
                  /\ Label_at(VM, n) = at
                  /\ n \in resolved_bitset /\ n \notin forward_bitset
            /\ (line[k] = Tok("goto") /\ Marks(line, n, k) /= {}) =>
                  /\ last_error = NoError
                  /\ here = at + 2 * Cell
                  /\ mem[at] = references.idx_branch
                  /\ mem[at + Cell] = Label_at(VM, n)
                  /\ \E j \in Marks(line, n, k) :
                        Label_at(VM, n) = BodyAddr(CellsBefore(line, j))

\* `[ 1 ] goto [ 1 ] call [ 1 ] goto [ 1 ] label`: a chain of three.
ChainOfThreeResolved ==
    /\ input_buffer = Header \o Bracket(1) \o <<Tok("goto")>> \o Bracket(1)
            \o <<Tok("call")>> \o Bracket(1) \o <<Tok("goto")>> \o Bracket(1)
            \o <<Tok("label")>>
    /\ source_index = Len(input_buffer)
    /\ resolved_bitset = {1}
    /\ mem[BodyAddr(1)] = here /\ mem[BodyAddr(6)] = here
    /\ mem[BodyAddr(8)] = here

\* C7: label, goto and call take only 0 < n < 1000; for any other n each
\* sets INVALID_NUMERIC_ARGUMENT; `label n` for n in the resolved set sets
\* the error too and leaves labels and both bit-sets as they were.
LabelNumberContract ==
    [][ \A w \in LabelWords : (Consumes(w) /\ is_compiling /\ source_index >= 5) =>
          LET n == input_buffer[source_index - 1].n
          IN  IF ~(0 < n /\ n < 1000)
              THEN last_error' = "INVALID_NUMERIC_ARGUMENT"
              ELSE IF w = "label" /\ n \in resolved_bitset
              THEN /\ last_error' = "INVALID_NUMERIC_ARGUMENT"
                   /\ labels' = labels
                   /\ forward_bitset' = forward_bitset
                   /\ resolved_bitset' = resolved_bitset
              ELSE last_error' = NoError ]_vars

\* `[ 1 ] label [ 1 ] label`: the second label 1 was refused.
SecondLabelRefused ==
    /\ input_buffer = Header \o Bracket(1) \o <<Tok("label")>> \o Bracket(1)
            \o <<Tok("label")>>
    /\ source_index = Len(input_buffer)
    /\ last_error = "INVALID_NUMERIC_ARGUMENT"
    /\ resolved_bitset = {1} /\ forward_bitset = {}
    /\ Label_at(VM, 1) = BodyAddr(0)


\* The interpreter is executing the cell at address a.
Executing(a) == phase = "run" /\ instruction_pointer = a

\* C8: `call n` compiles the five cells lit, return address, >r, branch,
\* label operand, the return address being the cell after the operand; the
\* exit of the subroutine resumes there with the return stack as deep as
\* before the call, for a label before the call and for one after it.
CallCompilesAndReturns ==
    \A fwd \in BOOLEAN, na \in 0..MaxBody, np \in 0..MaxBody, nq \in 0..MaxBody :
        input_buffer = CallLine(fwd, na, np, nq) =>
            LET c        == IF fwd THEN 2 * np ELSE 3 + 2 * na + 2 * np
                callIdx  == IF fwd THEN 2 + np + 4 ELSE 19 + na + np
                labelIdx == IF fwd THEN callIdx + nq + 5 ELSE 10
                labelAt  == IF fwd THEN BodyAddr(c + 6 + 2 * nq) ELSE BodyAddr(2)
            IN  /\ source_index = callIdx - 1 => here = BodyAddr(c)
                /\ source_index = callIdx => here = BodyAddr(c + 5)
                /\ source_index >= callIdx =>
                      /\ last_error = NoError
                      /\ mem[BodyAddr(c)] = references.idx_lit
                      /\ mem[BodyAddr(c + 1)] = BodyAddr(c + 5)
                      /\ mem[BodyAddr(c + 2)] = references.idx_to_r
                      /\ mem[BodyAddr(c + 3)] = references.idx_branch
                /\ (source_index >= callIdx /\ source_index >= labelIdx) =>
                      mem[BodyAddr(c + 4)] = labelAt
                /\ Executing(BodyAddr(c)) => r_stack.len = 1
                /\ Executing(labelAt) => r_stack.len = 2
                /\ Executing(BodyAddr(c + 5)) =>
                      /\ r_stack.len = 1
                      /\ Stack_as_slice(s_stack) =
                            LitValues(np, 20) \o LitValues(na, 10)
                /\ phase = "idle" =>
                      /\ source_index = Len(input_buffer)
                      /\ r_stack.len = 0
                      /\ Stack_as_slice(s_stack) =
                            LitValues(np, 20) \o LitValues(na, 10)
                                \o LitValues(nq, 30)

\* A forward call has returned to the cell after its five cells.
ForwardCallReturned ==
    /\ input_buffer = CallLine(TRUE, 2, 1, 1)
    /\ Executing(BodyAddr(7))
    /\ r_stack.len = 1
    /\ Stack_as_slice(s_stack) = <<21, 11, 12>>

\* In `: t 1 n 0 do 1+ loop ; t` the body `1+` is cell 8 of t and the cell
\* after the loop is cell 11.  The k-th execution of the body finds k on
\* the parameter stack.
DoLoopRuns(n, trips) ==
    input_buffer = DoLoopLine(n) =>
        /\ Executing(BodyAddr(8)) =>
              /\ Stack_last(s_stack) \in trips
              /\ r_stack.len = 4
        /\ Executing(BodyAddr(11)) => r_stack.len = 1
        /\ phase = "idle" =>
              /\ last_error = NoError
              /\ source_index = Len(input_buffer)
              /\ Stack_as_slice(s_stack) = <<n + 1>>
              /\ r_stack.len = 0

\* C9 as stated: for every n >= 0, n = 0 included, the body of
\* `1 n 0 do 1+ loop` is executed exactly n times, n+1 is left, and the
\* three loop-control cells are gone after the loop.
DoLoopRunsNTimes == \A n \in 0..MaxTrip : DoLoopRuns(n, 1..n)

\* C9: for every n >= 1 the body of `1 n 0 do 1+ loop` is executed exactly
\* n times and n+1 is left; for n = 0 the body is executed for every index
\* of the cell range (2^CellBits times) and the sum wraps around to 1; in
\* both cases the three loop-control cells are gone after the loop.
DoLoopRunsNTimesFromOne ==
    /\ \A n \in 1..MaxTrip : DoLoopRuns(n, 1..n)
    /\ DoLoopRuns(0, IsizeMin..IsizeMax)

\* `: t 1 n 0 do 1+ loop ; t` with the largest n has run: n+1 is left.
LongestLoopDone ==
    /\ input_buffer = DoLoopLine(MaxTrip)
    /\ phase = "idle"
    /\ Stack_as_slice(s_stack) = <<MaxTrip + 1>>
    /\ r_stack.len = 0

\* C10: in `L S do i loop` the k-th iteration (k = 0, 1, ...) pushes S + k
\* while the return stack holds the biased pair (rn, rt); in two nested
\* do-loops j pushes the index of the outer loop.
IndexWords ==
    /\ \A S \in Starts, n \in 1..MaxTrip :
          input_buffer = DoILine(S, S + n) =>
              /\ Executing(BodyAddr(6)) =>
                    LET k == s_stack.len
                    IN  /\ k < n
                        /\ Stack_as_slice(s_stack) = [x \in 1..k |-> S + x - 1]
                        /\ Stack_peek(r_stack, 0) = Wrap(IsizeMin + k - n)
                        /\ Stack_peek(r_stack, 1) = Wrap(S + n - IsizeMin)
              /\ phase = "idle" =>
                    /\ last_error = NoError
                    /\ Stack_as_slice(s_stack) = [x \in 1..n |-> S + x - 1]
    /\ \A S1 \in Starts, n1 \in 1..MaxTrip, S2 \in Starts, n2 \in 1..MaxTrip :
          (input_buffer = DoJLine(S1, S1 + n1, S2, S2 + n2) /\ phase = "idle") =>
                  /\ last_error = NoError
                  /\ Stack_as_slice(s_stack) =
                        [x \in 1..(2 * n1 * n2) |->
                            LET pair == (x - 1) \div 2
                            IN  IF x % 2 = 1 THEN S2 + (pair % n2)
                                ELSE S1 + (pair \div n2)]

\* `: t 4 2 do 2 -1 do i j loop loop ; t` has pushed (i, j) six times.
NestedIndicesPushed ==
    /\ input_buffer = DoJLine(2, 4, -1, 2)
    /\ phase = "idle"
    /\ Stack_as_slice(s_stack) = <<-1, 2, 0, 2, 1, 2, -1, 3, 0, 3, 1, 3>>


\* k copies of v.
Copies(k, v) == [x \in 1..k |-> v]

\* C11: in `L 0 do i K = if leave then 7 loop` and its `1 +loop` form, alone
\* or as the body of an outer do-loop, the step that executes `leave` removes
\* exactly the three topmost cells of the return stack, changes nothing on
\* the parameter stack and continues at the first cell after the operand of
\* _loop / _+loop, which is the address held by the cell after _do; the 7 of
\* that iteration and all later iterations of that loop are skipped.
LeaveExitsInnermostLoop ==
    [][ \A pl \in BOOLEAN, nested \in BOOLEAN, L \in 1..MaxTrip, K \in 0..MaxTrip :
          input_buffer = LeaveLine(pl, nested, L, K) =>
            LET pre       == IF nested THEN 6 ELSE 0
                leaveAt   == BodyAddr(pre + 12)
                afterLoop == BodyAddr(pre + 17 + (IF pl THEN 2 ELSE 0))
                rs        == Stack_as_slice(r_stack)
                once      == Copies(IF K < L THEN K ELSE L, 7)
            IN  /\ Executing(leaveAt) =>
                      /\ mem[leaveAt] = find(VM, "leave")
                      /\ mem[BodyAddr(pre + 5)] = afterLoop
                      /\ r_stack.len = (IF nested THEN 7 ELSE 4)
                      /\ Stack_as_slice(r_stack') = SubSeq(rs, 1, Len(rs) - 3)
                      /\ s_stack' = s_stack
                      /\ instruction_pointer' = afterLoop
                      /\ last_error' = NoError
                /\ phase' = "idle" =>
                      /\ last_error' = NoError
                      /\ Stack_as_slice(s_stack') =
                            IF nested THEN once \o <<8>> \o once \o <<8, 9>>
                            ELSE once \o <<9>> ]_vars

\* `: t 2 0 do 3 0 do i 1 = if leave then 7 1 +loop 8 loop 9 ; t` has run:
\* each pass of the outer loop left one 7 and the 8.
LeaveLeftInnerLoopTwice ==
    /\ input_buffer = LeaveLine(TRUE, TRUE, 3, 1)
    /\ phase = "idle"
    /\ Stack_as_slice(s_stack) = <<7, 8, 7, 8, 9>>


\* ----------------------------------------------------------------------
\* The interpreter on a line of definitions typed phrase by phrase
\* ----------------------------------------------------------------------

\* Most phrases of a line of definitions.
MaxDictPhrases == 4

\* `a` and `A` are one name; `a_` and `b>` are two names with one djb2 hash;
\* `: A` leaves a definition in progress; `M` executes the marker word m.
DictPhrases ==
    { <<Tok(":"), Tok("a"), Tok(";")>>, <<Tok(":"), Tok("A")>>, <<Tok(";")>>,
      <<Tok(":"), Tok("a_"), Tok(";")>>, <<Tok(":"), Tok("b>"), Tok(";")>>,
      <<Tok("marker"), Tok("m")>>, <<Tok("M")>>, <<Num(7), Tok(",")>> }

\* The last tokens of the phrases.
DictPhraseEnds == { p[Len(p)] : p \in DictPhrases }

DictPhraseCount(line) ==
    Cardinality({ k \in 1..Len(line) : line[k] \in DictPhraseEnds })

TypeDict ==
    /\ phase = "token" /\ ~panicked /\ ~spinning
    /\ source_index = Len(input_buffer)
    /\ DictPhraseCount(input_buffer) < MaxDictPhrases
    /\ \E p \in DictPhrases : input_buffer' = input_buffer \o p
    /\ UNCHANGED << mem, here, panicked, words, last, buckets, temp_buckets,
                    s_stack, r_stack, c_stack, f_stack, is_compiling,
                    instruction_pointer, word_pointer, aborted_word_pointer,
                    source_index, last_error, handler, labels, forward_bitset,
                    resolved_bitset, last_token, references, source_id,
                    current_task, awake, tasks, spinning, phase >>

InitDict ==
    /\ Holds(set_source(VM0, << >>))
    /\ phase = "token"

\* None of the phrases executes a colon definition, so run() has nothing to
\* execute and the specification has no Forth step.
NextDict == EvalToken \/ EndRun \/ TypeDict

SpecDict == InitDict /\ [][NextDict]_vars

\* The loop of evaluate_input up to token k of the line, while run() has
\* nothing to execute: the VM when the first k tokens are consumed.
RECURSIVE evaluate_tokens(_, _)
evaluate_tokens(m, k) ==
    IF m.source_index >= k \/ m.panicked THEN m
    ELSE LET m1 == parse_word(m)
         IN  IF m1.last_token = EmptyToken THEN m1
             ELSE LET m2 == IF m1.is_compiling THEN compile_token(m1)
                            ELSE interpret_token(m1)
                  IN  IF m2.last_error /= NoError \/ m2.panicked THEN m2
                      ELSE LET m3 == check_stacks(m2)
                           IN  IF m3.last_error /= NoError THEN m3
                               ELSE evaluate_tokens(m3, k)

\* The VM as it was after the first j tokens of the line.
AfterTokens(j) == evaluate_tokens(set_source(VM0, input_buffer), j)

\* Spellings looked up: defined names in both cases, and an undefined one.
Probes ==
    { "a", "A", "a_", "A_", "b>", "B>", "m", "M", "dup", "DUP", "marker",
      "Marker", "zz" }

\* The largest XT of a word that is not hidden and whose name is s up to
\* ASCII case, or -1.
NewestVisible(s) ==
    LET low  == make_ascii_lowercase(s)
        hits == { i \in 0..(Len(words) - 1) :
                    /\ ~words[i + 1].hidden
                    /\ Len(words[i + 1].name) = Len(s)
                    /\ make_ascii_lowercase(words[i + 1].name) = low }
    IN  IF hits = {} THEN -1 ELSE CHOOSE i \in hits : \A k \in hits : k <= i

RanMarker(k) ==
    /\ phase = "run" /\ source_index = k /\ ~is_compiling
    /\ input_buffer[k] = Tok("M")

\* The `marker m` phrases interpreted before token k that gave their word
\* the XT of the word just executed: j tokens precede the phrase.
MarkersOf(k) ==
    { j \in 0..(k - 3) :
        /\ input_buffer[j + 1] = Tok("marker")
        /\ input_buffer[j + 2] = Tok("m")
        /\ ~AfterTokens(j).is_compiling
        /\ Len(AfterTokens(j).words) = word_pointer }

\* C13: executing the marker word m restores the dictionary and the data
\* space: the length of the word list, each of the 64 bucket heads and here
\* are what they were just before the `marker m` that defined the word;
\* every spelling found then is found now with the same XT, and neither m
\* nor a word defined after it is found.
MarkerRestores ==
    \A k \in 1..Len(input_buffer) :
        RanMarker(k) =>
            /\ MarkersOf(k) /= {}
            /\ LET j == CHOOSE i \in MarkersOf(k) : \A i2 \in MarkersOf(k) : i2 <= i
                   before == AfterTokens(j)
               IN  /\ Len(words) = Len(before.words)
                   /\ \A b \in 0..(BUCKET_SIZE - 1) : buckets[b] = before.buckets[b]
                   /\ here = before.here
                   /\ \A s \in Probes :
                         /\ find(before, s) /= -1 => find(VM, s) = find(before, s)
                         /\ find(VM, s) < word_pointer
                         /\ find(VM, s) = find(before, s)

\* `: a ; marker m : a ; M`: after the rollback `a` is the first
\* definition again and the data space ends after its body.
RedefinitionRolledBack ==
    /\ input_buffer = <<Tok(":"), Tok("a"), Tok(";"), Tok("marker"), Tok("m"),
                        Tok(":"), Tok("a"), Tok(";"), Tok("M")>>
    /\ RanMarker(9)
    /\ find(VM, "a") = Len(words) - 1
    /\ find(VM, "m") = -1
    /\ here = WordAt(VM, last).dfa + Cell

\* The words of bucket b from word w on have descending XTs below prev,
\* are in the word list and have a hash that belongs to the bucket.
RECURSIVE ChainDescends(_, _, _)
ChainDescends(b, w, prev) ==
    \/ w = 0
    \/ /\ w < prev
       /\ w < Len(words)
       /\ words[w + 1].hash = hash(words[w + 1].name)
       /\ BucketOf(words[w + 1].hash) = b
       /\ ChainDescends(b, words[w + 1].link, w)

\* C14: from every bucket head the links visit strictly descending XTs,
\* each below the length of the word list and each with hash mod 64 equal
\* to the bucket; and a step that adds a header gives it the previous
\* length of the word list as its XT and leaves the older headers in place.
BucketChainsDescend ==
    /\ [](\A b \in 0..(BUCKET_SIZE - 1) : ChainDescends(b, buckets[b], Len(words)))
    /\ [][ Len(words') > Len(words) =>
              /\ Len(words') = Len(words) + 1
              /\ last' = Len(words)
              /\ buckets'[BucketOf(words'[Len(words')].hash)] = Len(words)
              /\ SubSeq(words', 1, Len(words)) = words ]_vars

\* `marker m : a_ ; : b> ; M`: two words of one bucket were added and
\* rolled back, and the bucket heads are those of the boot dictionary.
ChainRolledBack ==
    /\ input_buffer = <<Tok("marker"), Tok("m"), Tok(":"), Tok("a_"), Tok(";"),
                        Tok(":"), Tok("b>"), Tok(";"), Tok("M")>>
    /\ RanMarker(9)
    /\ buckets = VM0.buckets
    /\ Len(words) = Len(VM0.words)

\* C15 as stated: 129 cells of any values pushed onto the empty parameter
\* stack make the next check_stacks abort with STACK_OVERFLOW.
PushBeyondGuardOverflows ==
    \A v \in PushTokens :
        (input_buffer = PushLine(v) /\ phase = "idle") =>
            last_error = "STACK_OVERFLOW"

\* What check_stacks does after the 129 cells: the 65th cell went to index
\* 64, so overflow() sees it unless it equals the canary; in that case the
\* length test of underflow() reports STACK_UNDERFLOW.
PushBeyondGuardAborts ==
    \A v \in PushTokens :
        input_buffer = PushLine(v) =>
            /\ (/\ phase = "run" /\ source_index = Len(input_buffer)
                /\ ~InDataSpace(instruction_pointer)) =>
                  /\ s_stack.len = UnderflowLen + 1
                  /\ Stack_at(s_stack, OverflowIndex) =
                        (IF v.num THEN v.n ELSE OverflowIndex)
            /\ phase = "idle" =>
                  /\ s_stack.len = 0
                  /\ last_error = IF v = Num(IntCanary) THEN "STACK_UNDERFLOW"
                                  ELSE "STACK_OVERFLOW"

\* 129 cells holding the canary value were pushed and check_stacks reported
\* an underflow.
CanaryCellsReportedAsUnderflow ==
    /\ input_buffer = PushLine(Num(IntCanary))
    /\ phase = "idle"
    /\ last_error = "STACK_UNDERFLOW"

\* ----------------------------------------------------------------------
\* The outer interpreter on lines that raise errors, compile plain tokens
\* and call colon words.
\* ----------------------------------------------------------------------

\* What follows the faulting token: a literal to interpret, a definition to
\* compile.
Tails == { <<Num(5)>>, <<Tok(":"), Tok("y"), Tok("dup"), Tok(";")>> }

\* The words that pop, and the number of cells each one pops.
Poppers == { <<"drop", 1>>, <<"t", 2>> }

\* `: t drop drop ;`, an optional float, k literals, then a word that pops
\* more than k cells: on its own, or between `: x [` and `] dup ;`.
UnderflowLine(fl, k, inDef, w, tail) ==
    <<Tok(":"), Tok("t"), Tok("drop"), Tok("drop"), Tok(";")>>
        \o (IF fl THEN <<Flt(1500000000)>> ELSE << >>)
        \o Lits(k, 10)
        \o (IF inDef THEN <<Tok(":"), Tok("x"), Tok("[")>> ELSE << >>)
        \o <<Tok(w)>>
        \o (IF inDef THEN <<Tok("]"), Tok("dup"), Tok(";")>> ELSE << >>)
        \o tail

\* The number of tokens of the line up to and including the popping word.
UnderflowAt(fl, k, inDef) ==
    5 + (IF fl THEN 1 ELSE 0) + k + (IF inDef THEN 3 ELSE 0) + 1

UnderflowLines ==
    { UnderflowLine(fl, k, inDef, p[1], tail) :
        fl \in BOOLEAN, k \in 0..1, inDef \in BOOLEAN,
        p \in { q \in Poppers : q[2] > 0 }, tail \in Tails }

\* The compile-only words of add_core, and two of them in upper case.
CompileOnlyNames ==
    { CoreWords[i][2] : i \in { j \in 1..Len(CoreWords) :
                                  CoreWords[j][1] \in {"c", "ic"} } }
        \cup { ">R", "IF" }

\* What precedes the compile-only word: nothing, a literal and a float, or
\* the head of a definition that went back to interpret state.
Befores ==
    { << >>, <<Num(7), Flt(1500000000)>>, <<Tok(":"), Tok("x"), Tok("[")>> }

CompileOnlyLine(pre, w, tail) == pre \o <<Tok(w)>> \o tail

CompileOnlyLines ==
    { CompileOnlyLine(pre, w, tail) :
        pre \in Befores, w \in CompileOnlyNames, tail \in Tails }

\* The names add_core registers with the given kinds.
NamesOfKind(kinds) ==
    { CoreWords[i][2] : i \in { j \in 1..Len(CoreWords) :
                                  CoreWords[j][1] \in kinds } }

\* Non-immediate words compiled by compile_word: those of add_core except
\* `leave` (compile_leave) and the empty name, the colon word t, and one
\* name in upper case.
OrdinaryNames == (NamesOfKind({"p", "c"}) \ {"", "leave"}) \cup {"t", "DUP"}

ImmediateNames == NamesOfKind({"i", "ic"})

\* Names no visible word has: x is the hidden definition under way.
UndefinedNames == { "zz", "x" }

CompileTokens ==
    { Tok(w) : w \in OrdinaryNames \cup ImmediateNames \cup UndefinedNames }
        \cup { Num(5), Num(-3), Flt(1500000000) }

\* `: t drop drop ; 7 : x`, one token, `;`.
CompileLine(tok) ==
    <<Tok(":"), Tok("t"), Tok("drop"), Tok("drop"), Tok(";"), Num(7),
      Tok(":"), Tok("x"), tok, Tok(";")>>

CompileLines == { CompileLine(tok) : tok \in CompileTokens }

\* Three colon words: sq, k (which parks a cell on the return stack around
\* its call of sq) and q (which calls sq, then k).
NestWords ==
    <<Tok(":"), Tok("sq"), Tok("dup"), Tok("*"), Tok(";"),
      Tok(":"), Tok("k"), Tok("dup"), Tok(">r"), Tok("sq"), Tok("r>"),
      Tok("+"), Tok(";"),
      Tok(":"), Tok("q"), Tok("sq"), Tok("k"), Tok(";")>>

NestArgs == { 0, 2, 7, -3 }

NestLine(v, w) == NestWords \o <<Num(v), Tok(w), Num(1)>>

NestLines == { NestLine(v, w) : v \in NestArgs, w \in {"sq", "k", "q"} }

\* The XT of the first word defined after add_core.
FirstNewXt == Len(CoreWords)

\* The handlers installed: the one of VM::new (0), noop, the colon word h.
Handlers == { 0, 1, FirstNewXt }

\* `: h 9 ; : u 1 2 abort 4 ;`, the handler, a float and a literal, and
\* then abort: typed on the line, executed inside u, or typed between
\* `: x if [` and `] then ;`.
AbortLine(h, how) ==
    <<Tok(":"), Tok("h"), Num(9), Tok(";"),
      Tok(":"), Tok("u"), Num(1), Num(2), Tok("abort"), Num(4), Tok(";")>>
        \o (IF h = 0 THEN << >> ELSE <<Num(h), Tok("handler!")>>)
        \o <<Flt(1500000000), Num(7)>>
        \o (CASE how = "line" -> <<Tok("abort"), Num(5)>>
               [] how = "word" -> <<Tok("u"), Num(5)>>
               [] how = "def"  -> <<Tok(":"), Tok("x"), Tok("if"), Tok("["),
                                    Tok("abort"), Tok("]"), Tok("then"),
                                    Tok(";")>>)

AbortLines ==
    { AbortLine(h, how) : h \in Handlers, how \in {"line", "word", "def"} }

\* `: t 7 >r [abort] 3 ] w 0 >r ;` with w one of reset and 0stacks, run
\* between `1.5 1 : x if [` and `] then ;`: the word w finds cells on the
\* four stacks, the compile state set, and with abort an error.
ResetLine(w, e) ==
    <<Tok(":"), Tok("t"), Num(7), Tok(">r")>>
        \o (IF e THEN <<Tok("abort")>> ELSE << >>)
        \o <<Num(3), Tok("]"), Tok(w), Tok("r>"), Tok("drop"), Num(0),
             Tok(">r"), Tok(";"),
             Flt(1500000000), Num(1), Tok(":"), Tok("x"), Tok("if"), Tok("["),
             Tok("t"), Tok("]"), Tok("then"), Tok(";")>>

ResetLines == { ResetLine(w, e) : w \in {"reset", "0stacks"}, e \in BOOLEAN }

\* The operands of the division words: the extremes of a cell, both
\* signs, zero and one.
DivArgs == { IsizeMin, -7, -1, 0, 1, 3, 7, IsizeMax }

DivWords == { "/", "mod", "/mod" }

\* `: t a b w 5 ; t 6`
DivLine(a, b, w) ==
    <<Tok(":"), Tok("t"), Num(a), Num(b), Tok(w), Num(5), Tok(";"),
      Tok("t"), Num(6)>>

DivLines == { DivLine(a, b, w) : a \in DivArgs, b \in DivArgs, w \in DivWords }

\* `: t 1 bye 2 ; t 3` and the same with bye inside a word that t calls.
ByeLine(nested) ==
    <<Tok(":"), Tok("b"), Tok("bye"), Num(4), Tok(";"),
      Tok(":"), Tok("t"), Num(1), Tok(IF nested THEN "b" ELSE "bye"), Num(2),
      Tok(";"), Tok("t"), Num(3)>>

ByeLines == { ByeLine(nested) : nested \in BOOLEAN }

\* Addresses at and around the two ends of the data space; the cells near
\* the limit hold 0, the XT of noop.
JumpTargets ==
    { 0, start - Cell, start - 1, limit - 2 * Cell, limit - Cell,
      limit - Cell + 1, limit - 1, limit, limit + Cell }

\* `: t addr >r ; t 3`: the exit of t continues at addr.
JumpLine(addr) ==
    <<Tok(":"), Tok("t"), Num(addr), Tok(">r"), Tok(";"), Tok("t"), Num(3)>>

JumpLines == { JumpLine(addr) : addr \in JumpTargets }

MemWords == { "@", "!", "c@", "c!" }

\* The bytes a memory word accesses.
AccessSize(w) == IF w \in {"@", "!"} THEN Cell ELSE 1

\* Addresses at and around the two ends of the data space.  The cell at
\* start is the system variable null, the one after it is base.
MemAddrs(w) ==
    { 0, -1, start - Cell, start - 1, start, start + Cell, limit - Cell,
      limit - Cell + 1, limit - 1, limit, limit + Cell }
    \cup (IF AccessSize(w) = 1 THEN { start + 1 } ELSE {})

\* The value stored: 9 into the low byte of a cell, 0 elsewhere.
MemValue(addr) == IF addr % Cell = 0 THEN 9 ELSE 0

\* `7 v addr w`
MemLine(w, addr) == <<Num(7), Num(MemValue(addr)), Num(addr), Tok(w)>>

MemLines ==
    UNION { { MemLine(w, addr) : addr \in MemAddrs(w) } : w \in MemWords }

\* Limit and start of the +loop lines: upward, downward and empty ranges.
PlusLoopRanges == { <<5, 0>>, <<6, 0>>, <<0, 5>>, <<0, 0>> }

\* The steps of a +loop from start toward limit: small steps run toward
\* the limit, the large ones go round the cell range.
PlusLoopSteps(r) ==
    (IF r[2] < r[1] THEN { 1, 2, 3 } ELSE { -1, -2, -3 })
        \cup { Pow2(CellBits - 2), -Pow2(CellBits - 2), IsizeMax, IsizeMin }

\* `: t 1 limit start do 1+ n +loop ; t`
PlusLoopLine(r, n) ==
    <<Tok(":"), Tok("t"), Num(1), Num(r[1]), Num(r[2]), Tok("do"), Tok("1+"),
      Num(n), Tok("+loop"), Tok(";"), Tok("t")>>

PlusLoopLines ==
    UNION { { PlusLoopLine(r, n) : n \in PlusLoopSteps(r) } : r \in PlusLoopRanges }

\* The arguments of allot: zero, one byte and one cell either way, the
\* extremes of a cell, and the distances from the first here to the two
\* ends of the data space (the upper one after an allot of the largest
\* cell), each exact and one byte more.
AllotArgs(h) ==
    { 0, 1, -1, Cell, -Cell, IsizeMax, IsizeMin,
      start - h, start - h - 1,
      limit - h - IsizeMax, limit - h - IsizeMax + 1 }

\* `a allot b allot`
AllotLine(a, b) == <<Num(a), Tok("allot"), Num(b), Tok("allot")>>

AllotLinesOf(args) == { AllotLine(a, b) : a \in args, b \in args }

\* The allot lines for a machine whose here is h.
AllotLines(h) == AllotLinesOf(AllotArgs(h))

\* `h handler! abort 5` with h the XT of noop, the first number that is no
\* XT, the largest cell and -1; and `marker m : h 9 ; h' handler! m abort 5`
\* with h' the XT of h, with and without the `m` that forgets h.
HandlerLines ==
    { <<Num(h), Tok("handler!"), Tok("abort"), Num(5)>> :
        h \in { 1, FirstNewXt, IsizeMax, -1 } }
    \cup { <<Tok("marker"), Tok("m"), Tok(":"), Tok("h"), Num(9), Tok(";"),
             Num(FirstNewXt + 1), Tok("handler!")>> \o forget
               \o <<Tok("abort"), Num(5)>> :
             forget \in { << >>, <<Tok("m")>> } }

OuterLines ==
    UnderflowLines \cup CompileOnlyLines \cup CompileLines \cup NestLines
        \cup AbortLines \cup ResetLines \cup DivLines \cup ByeLines
        \cup JumpLines \cup MemLines \cup PlusLoopLines
        \cup HandlerLines

\* The machine m is given one of the lines.
InitOuterOf(m) ==
    /\ \E line \in OuterLines \cup AllotLines(m.here) :
          Holds(set_source(m, line))
    /\ phase = "token"

InitOuter == InitOuterOf(VM0)

SpecOuter == InitOuter /\ [][Next]_vars

CompileOnlyRefusedWhenInterpreting ==
    [][\A pre \in Befores, w \in CompileOnlyNames, tail \in Tails :
         (/\ input_buffer = CompileOnlyLine(pre, w, tail)
          /\ source_index = Len(pre)
          /\ phase = "token") =>
             /\ ~is_compiling
             /\ last_error = NoError
             /\ last_error' = "INTERPRETING_A_COMPILE_ONLY_WORD"
             /\ source_index' = Len(pre) + 1
             /\ phase' = "idle"
             /\ UNCHANGED << r_stack, mem, here, instruction_pointer, words,
                             last, is_compiling >>]_vars

\* `7 1.5 >r 5` stopped at `>r` with nothing on the return stack.
ToRRefusedWhenInterpreting ==
    /\ input_buffer = <<Num(7), Flt(1500000000), Tok(">r"), Num(5)>>
    /\ phase = "idle"
    /\ source_index = 3
    /\ last_error = "INTERPRETING_A_COMPILE_ONLY_WORD"
    /\ r_stack.len = 0

\* The XT of a name: its position in the registration order of add_core
\* (the first word has XT 0); the colon word t is the first word after them.
XtOf(w) ==
    IF w = "t" THEN Len(CoreWords)
    ELSE (CHOOSE i \in 1..Len(CoreWords) :
             CoreWords[i][2] = make_ascii_lowercase(w)) - 1

\* C18: in compile state a token that names a non-immediate word is not
\* executed: for an ordinary word one cell holding its XT is appended at
\* here and the parameter, return, control and float stacks are unchanged.
\* A token that names an immediate word is executed at once.  A token that
\* names no word is compiled as lit and its value if it is an integer, as
\* flit and its value if it is a float, and raises UNDEFINED_WORD otherwise.
\* The `drop drop` of the definition of t is compiled, not executed, so
\* no line ends before the token after `: x`.
CompileTokenCompiles ==
    /\ [](\A tok \in CompileTokens :
            (input_buffer = CompileLine(tok) /\ phase = "idle") =>
                source_index >= 9)
    /\ [][\A tok \in CompileTokens :
         (/\ input_buffer = CompileLine(tok)
          /\ source_index = 8
          /\ phase = "token") =>
             /\ is_compiling /\ last_error = NoError
             /\ s_stack.len = 1 /\ Stack_top(s_stack) = 7
             /\ source_index' = 9
             /\ tok.w \in OrdinaryNames =>
                   /\ mem' = [mem EXCEPT ![here] = XtOf(tok.w)]
                   /\ here' = here + Cell
                   /\ last_error' = NoError /\ phase' = "run"
                   /\ UNCHANGED << s_stack, r_stack, c_stack, f_stack,
                                   is_compiling, words, instruction_pointer >>
             /\ tok.w \in ImmediateNames =>
                   /\ Becomes(execute_word(parse_word(VM), XtOf(tok.w)))
                   /\ tok.w = "[" => (~is_compiling' /\ here' = here)
             /\ tok.num =>
                   /\ mem' = [mem EXCEPT ![here] = XtOf("lit"),
                                         ![here + Cell] = tok.n]
                   /\ here' = here + 2 * Cell
                   /\ last_error' = NoError /\ phase' = "run"
                   /\ UNCHANGED << s_stack, r_stack, c_stack, f_stack,
                                   is_compiling, words >>
             /\ tok.flt =>
                   /\ mem' = [mem EXCEPT ![here] = XtOf("flit"),
                                         ![here + Cell] = tok.n]
                   /\ here' = here + 2 * Cell
                   /\ last_error' = NoError /\ phase' = "run"
                   /\ UNCHANGED << s_stack, r_stack, c_stack, f_stack,
                                   is_compiling, words >>
             /\ tok.w \in UndefinedNames =>
                   /\ last_error' = "UNDEFINED_WORD" /\ phase' = "idle"
                   /\ UNCHANGED << mem, here, words, r_stack >>]_vars

\* `: t drop drop ; 7 : x dup ;` is done: the body of x is the XT of dup
\* and the XT of exit, and the 7 is still on the parameter stack.
DupCompiledNotExecuted ==
    /\ input_buffer = CompileLine(Tok("dup"))
    /\ phase = "idle" /\ last_error = NoError
    /\ mem[here - 2 * Cell] = XtOf("dup")
    /\ mem[here - Cell] = XtOf("exit")
    /\ Stack_as_slice(s_stack) = <<7>>

\* The run() loop from m until the return stack is back at the given depth
\* or the instruction pointer leaves the data space.
RECURSIVE run_to_depth(_, _)
run_to_depth(m, depth) ==
    IF m.r_stack.len <= depth \/ m.panicked
          \/ ~InDataSpace(m.instruction_pointer)
    THEN m
    ELSE run_to_depth(forth(m), depth)

\* The call of colon word xt with return address ret is balanced: the step
\* sets the instruction pointer to the DFA of the word and pushes ret and
\* nothing else, and when the return stack is next at its depth before the
\* call it holds what it held, the instruction pointer is ret, and the word
\* executed last is exit.
BalancedCall(xt, ret) ==
    /\ instruction_pointer' = words[xt + 1].dfa
    /\ r_stack' = Stack_push(r_stack, ret)
    /\ LET called == [VM EXCEPT !.instruction_pointer = words[xt + 1].dfa,
                                !.r_stack = Stack_push(r_stack, ret),
                                !.word_pointer = xt]
           back   == run_to_depth(called, r_stack.len)
       IN  /\ back.r_stack.len = r_stack.len
           /\ Stack_as_slice(back.r_stack) = Stack_as_slice(r_stack)
           /\ back.instruction_pointer = ret
           /\ back.word_pointer = XtOf("exit")
           /\ back.last_error = NoError

sq(v) == Wrap(v * v)

\* The values the three words compute.
NestResult(v, w) ==
    CASE w = "sq" -> sq(v)
      [] w = "k"  -> Wrap(sq(v) + v)
      [] w = "q"  -> Wrap(sq(sq(v)) + sq(v))

\* Every step that executes a colon word is a balanced call.
CallsAreBalanced ==
    input_buffer \in NestLines =>
        /\ (/\ phase = "run" /\ InDataSpace(instruction_pointer)
            /\ get_usize(VM, instruction_pointer) < Len(words)
            /\ words[get_usize(VM, instruction_pointer) + 1].action = "nest")
              => BalancedCall(get_usize(VM, instruction_pointer),
                              instruction_pointer + Cell)
        /\ (/\ phase = "token" /\ ~is_compiling
            /\ source_index = Len(NestWords) + 1)
              => BalancedCall(find(VM, input_buffer[source_index + 1].w),
                              instruction_pointer)

\* C19: calling a colon word and returning from it are balanced.  The
\* step that executes a colon word, from the input line or from a cell of
\* another colon word, sets the instruction pointer to the DFA of the word
\* and pushes exactly one return address (for a compiled call, the cell
\* following the call); the final exit of the word resumes there with the
\* return stack as it was before the call, so nested calls return in
\* last-in first-out order.  `: sq dup * ; 7 sq` leaves 49.
ColonCallsBalance ==
    /\ [](\A v \in NestArgs, w \in {"sq", "k", "q"} :
            (input_buffer = NestLine(v, w) /\ phase = "idle") =>
                /\ last_error = NoError /\ r_stack.len = 0
                /\ Stack_as_slice(s_stack) = <<NestResult(v, w), 1>>)
    /\ [][CallsAreBalanced]_vars

\* Inside sq called from k called from q called from the line `7 q 1`: the
\* return stack holds the interpreter's address, the return address into q,
\* the cell k parked, and the return address into k.
ThreeCallsDeep ==
    /\ input_buffer = NestLine(7, "q")
    /\ phase = "run"
    /\ r_stack.len = 4
    /\ instruction_pointer = words[find(VM, "sq") + 1].dfa
    /\ Stack_at(r_stack, 1) = words[find(VM, "q") + 1].dfa + 2 * Cell
    /\ Stack_at(r_stack, 2) = sq(7)
    /\ Stack_at(r_stack, 3) = words[find(VM, "k") + 1].dfa + 3 * Cell

\* What abort_with("ABORT") called with instruction pointer ip leaves: the
\* three stacks empty, the error, the aborted word pointer, and the handler
\* executed; with the handler noop nothing else changes, with the colon
\* word h the handler's nest pushes ip and enters h.
AbortedAt(ip) ==
    /\ s_stack' = Stack_new(IntCanary)
    /\ f_stack' = Stack_new(FloatCanary)
    /\ c_stack' = Stack_new(ControlCanary)
    /\ last_error' = "ABORT"
    /\ aborted_word_pointer' = XtOf("abort")
    /\ word_pointer' = handler
    /\ handler \in {0, 1} =>
          (r_stack' = r_stack /\ instruction_pointer' = ip)
    /\ handler = FirstNewXt =>
          /\ r_stack' = Stack_push(r_stack, ip)
          /\ instruction_pointer' = words[FirstNewXt + 1].dfa
    /\ UNCHANGED << is_compiling, words, last, buckets, mem, here, handler >>

\* The steps of the lines that execute abort.
AbortSteps ==
    input_buffer \in AbortLines =>
        /\ (/\ phase = "token" /\ ~is_compiling
            /\ source_index < Len(input_buffer)
            /\ input_buffer[source_index + 1] = Tok("abort"))
              => (/\ s_stack.len = 1 /\ f_stack.len = 1
                  /\ AbortedAt(instruction_pointer))
        /\ (/\ phase = "run" /\ InDataSpace(instruction_pointer)
            /\ get_usize(VM, instruction_pointer) = XtOf("abort"))
              => (/\ s_stack.len = 3 /\ f_stack.len = 1
                  /\ AbortedAt(instruction_pointer + Cell))

ResetSteps ==
    \A w \in {"reset", "0stacks"}, e \in BOOLEAN :
        (/\ input_buffer = ResetLine(w, e)
         /\ phase = "run" /\ InDataSpace(instruction_pointer)
         /\ get_usize(VM, instruction_pointer) = XtOf(w)) =>
            /\ r_stack.len = 2 /\ is_compiling /\ source_index > 0
            /\ s_stack.len >= 1
            /\ last_error = (IF e THEN "ABORT" ELSE NoError)
            /\ ~e => (s_stack.len = 2 /\ f_stack.len = 1 /\ c_stack.len = 1)
            /\ w = "reset" =>
                  /\ r_stack' = Stack_new(IntCanary)
                  /\ source_id' = 0 /\ source_index' = 0
                  /\ input_buffer' = << >>
                  /\ ~is_compiling'
                  /\ last_error' = NoError
                  /\ UNCHANGED << s_stack, f_stack, c_stack >>
            /\ w = "0stacks" =>
                  /\ s_stack' = Stack_new(IntCanary)
                  /\ f_stack' = Stack_new(FloatCanary)
                  /\ c_stack' = Stack_new(ControlCanary)
                  /\ UNCHANGED << r_stack, last_error >>

\* C21: reset empties the return stack, sets source-id and source index
\* to 0, clears the input buffer, puts the task in interpret state and
\* sets last_error to none, and leaves the parameter, float and control
\* stacks exactly as they were; clear_stacks (0stacks) resets the
\* parameter, float and control stacks and leaves the return stack and
\* last_error unchanged.
ResetAndClearStacksFrames == [][ResetSteps]_vars

\* reset has run inside t of `: t 7 >r 3 ] reset ... ; 1.5 1 : x if [ t`:
\* the return stack and the input buffer are empty and the cells 1 and 3,
\* the float and the control marker of `if` are still there.
ResetKeptTheStacks ==
    /\ phase = "run"
    /\ word_pointer = XtOf("reset")
    /\ input_buffer = << >> /\ source_index = 0
    /\ r_stack.len = 0
    /\ ~is_compiling /\ last_error = NoError
    /\ Stack_as_slice(s_stack) = <<1, 3>>
    /\ f_stack.len = 1 /\ c_stack.len = 1

\* C22 as stated: an exception raised by a word executed inside run ends
\* the inner loop; once a word of a colon definition has called abort_with,
\* run executes no further cell before it returns.
ExceptionEndsRun ==
    [][(/\ input_buffer \in DivLines
        /\ phase = "run" /\ last_error /= NoError) => phase' /= "run"]_vars

\* What run does after a division by zero inside t: abort_with clears the
\* stacks and executes the handler (noop), the instruction pointer stays
\* inside t, and the loop goes on: the 5 is pushed and exit is executed;
\* evaluate_input leaves its loop after run has returned.
RunGoesOnAfterException ==
    /\ [](\A a \in DivArgs, w \in DivWords :
            (input_buffer = DivLine(a, 0, w) /\ phase = "idle") =>
                /\ last_error = "DIVISION_BY_ZERO"
                /\ Stack_as_slice(s_stack) = <<5>>
                /\ r_stack.len = 0
                /\ source_index = 8)
    /\ [][\A a \in DivArgs, w \in DivWords :
            (/\ input_buffer = DivLine(a, 0, w)
             /\ phase = "run" /\ last_error /= NoError
             /\ InDataSpace(instruction_pointer)) =>
                (phase' = "run" /\ instruction_pointer' /= instruction_pointer)]_vars

\* `: t 7 0 / 5 ; t 6` ended with DIVISION_BY_ZERO and the 5 on the stack.
FivePushedAfterDivisionByZero ==
    /\ input_buffer = DivLine(7, 0, "/")
    /\ phase = "idle"
    /\ last_error = "DIVISION_BY_ZERO"
    /\ Stack_as_slice(s_stack) = <<5>>

\* The step of run on the lines with bye and with a jump.
RunSteps ==
    (input_buffer \in ByeLines \cup JumpLines /\ phase = "run") =>
        IF start <= instruction_pointer /\ instruction_pointer + Cell <= limit
        THEN LET ip == instruction_pointer
                 w  == mem[ip]
             IN  /\ phase' = "run"
                 /\ Becomes(execute_word(
                        [VM EXCEPT !.instruction_pointer = ip + Cell], w))
                 /\ w = XtOf("lit") =>
                       /\ s_stack' = Stack_push(s_stack, mem[ip + Cell])
                       /\ instruction_pointer' = ip + 2 * Cell
                 /\ w = XtOf("noop") =>
                       (instruction_pointer' = ip + Cell /\ UNCHANGED s_stack)
                 /\ w = XtOf("bye") => instruction_pointer' = 0
        ELSE /\ phase' /= "run"
             /\ UNCHANGED << instruction_pointer, word_pointer, mem, here,
                             r_stack >>

\* C23: the inner loop executes a step exactly while the instruction
\* pointer addresses a whole cell inside the data space (start <= IP and
\* IP + cell size <= limit); a step reads the XT at IP, advances IP by one
\* cell and only then invokes the action of the word.  After bye has set IP
\* to 0 the loop makes no further step: the cells after bye are not
\* executed and run returns.
RunStepsWhileInDataSpace ==
    /\ [](\A nested \in BOOLEAN :
            (input_buffer = ByeLine(nested) /\ phase = "idle") =>
                /\ last_error = NoError
                /\ Stack_as_slice(s_stack) = <<1, 3>>)
    /\ [](\A addr \in JumpTargets :
            (input_buffer = JumpLine(addr) /\ phase = "idle") =>
                /\ last_error = NoError
                /\ Stack_as_slice(s_stack) = <<3>>
                /\ instruction_pointer =
                      (IF addr \in {limit - 2 * Cell, limit - Cell}
                       THEN limit ELSE addr))
    /\ [][RunSteps]_vars

\* `: b bye 4 ; : t 1 b 2 ; t 3` is done: neither the 4 nor the 2 was
\* pushed, both return addresses are still on the return stack, and the 3
\* of the line was interpreted after run returned.
ByeStoppedRun ==
    /\ input_buffer = ByeLine(TRUE)
    /\ phase = "idle"
    /\ instruction_pointer = 0
    /\ r_stack.len = 2
    /\ Stack_as_slice(s_stack) = <<1, 3>>

\* ----------------------------------------------------------------------
\* The multitasker: the terminal task types a line phrase by phrase
\* ----------------------------------------------------------------------

\* Most phrases typed after the definitions.
MaxTaskOps == 3

\* w is a worker that pauses for ever; v first leaves 9 on its return
\* stack, 8 on its parameter stack and enters compile state; e first
\* divides by zero; p pauses once; m pauses for ever.  The terminal task
\* keeps 3 on its parameter stack.
TaskPrefix ==
    <<Tok(":"), Tok("w"), Tok("activate"),
        Tok("begin"), Tok("pause"), Tok("again"), Tok(";"),
      Tok(":"), Tok("v"), Tok("activate"), Num(9), Tok(">r"), Num(8),
        Tok("]"), Tok("begin"), Tok("pause"), Tok("again"), Tok(";"),
      Tok(":"), Tok("e"), Tok("activate"), Num(7), Num(0), Tok("/"),
        Tok("begin"), Tok("pause"), Tok("again"), Tok(";"),
      Tok(":"), Tok("p"), Tok("pause"), Tok(";"),
      Tok(":"), Tok("m"), Tok("begin"), Tok("pause"), Tok("again"), Tok(";"),
      Num(3)>>

TaskOps ==
    { <<Num(2), Tok("w")>>, <<Num(5), Tok("v")>>, <<Num(2), Tok("e")>>,
      <<Num(6), Tok("w")>>, <<Num(0), Tok("w")>>, <<Tok("p")>>,
      <<Num(2), Tok("suspend")>>, <<Num(1), Tok("suspend")>>,
      <<Num(6), Tok("suspend")>>, <<Num(2), Tok("resume")>>,
      <<Num(0), Tok("resume")>>, <<Tok("me")>>, <<Tok("m")>> }

\* The phrases typed so far.
TaskOpCount(line) ==
    Cardinality({ k \in (Len(TaskPrefix) + 1)..Len(line) : ~line[k].num })

\* The terminal task has consumed its line and the next phrase is typed.
TypeTask ==
    /\ phase = "token" /\ ~panicked /\ ~spinning
    /\ current_task = 0
    /\ source_index = Len(input_buffer)
    /\ TaskOpCount(input_buffer) < MaxTaskOps
    /\ \E p \in TaskOps : input_buffer' = input_buffer \o p
    /\ UNCHANGED << mem, here, panicked, words, last, buckets, temp_buckets,
                    s_stack, r_stack, c_stack, f_stack, is_compiling,
                    instruction_pointer, word_pointer, aborted_word_pointer,
                    source_index, last_error, handler, labels, forward_bitset,
                    resolved_bitset, last_token, references, source_id,
                    current_task, awake, tasks, spinning, phase >>

InitTasks ==
    /\ Holds(set_source(VM0, TaskPrefix))
    /\ phase = "token"

NextTasks == EvalToken \/ Forth \/ EndRun \/ TypeTask

SpecTasks == InitTasks /\ [][NextTasks]_vars

\* The step is an iteration of run that executes the word named w.
Executes(w) ==
    /\ phase = "run"
    /\ InDataSpace(instruction_pointer)
    /\ mem[instruction_pointer] = XtOf(w)

\* The first awake task after task c in cyclic order; c itself when no
\* task is awake.
NextAwake(c) ==
    LET ks == { k \in 1..NUM_TASKS : awake[(c + k) % NUM_TASKS] }
    IN  IF ks = {} THEN c
        ELSE (c + (CHOOSE k \in ks : \A j \in ks : k <= j)) % NUM_TASKS

\* The tasks as the step found them, the current one past the cell of the
\* word it executes.
TasksBefore ==
    [ i \in TaskIds |->
        Task_at([VM EXCEPT !.instruction_pointer = @ + Cell,
                           !.word_pointer = mem[instruction_pointer]], i) ]

TasksAfter == [ i \in TaskIds |-> Task_at(VM, i) ]

\* pause has handed over to the next awake task and touched nothing else.
PauseHandsOver ==
    /\ ~spinning'
    /\ current_task' = NextAwake(current_task)
    /\ \A k \in 1..NUM_TASKS :
          (/\ awake[(current_task + k) % NUM_TASKS]
           /\ \A j \in 1..(k - 1) : ~awake[(current_task + j) % NUM_TASKS])
             => current_task' = (current_task + k) % NUM_TASKS
    /\ awake' = awake
    /\ TasksAfter' = TasksBefore
    /\ UNCHANGED << mem, here, words, last, last_error, handler >>

PauseAsClaimed == Executes("pause") => PauseHandsOver

PauseAsCoded ==
    Executes("pause") =>
        IF \E i \in TaskIds : awake[i] THEN PauseHandsOver
        ELSE /\ spinning'
             /\ UNCHANGED << current_task, awake, tasks, s_stack, r_stack,
                             mem, last_error >>

\* C24: pause makes the next awake task in cyclic order the current task:
\* from task c it is task (c + k) mod 5 for the smallest k in 1..5 whose
\* task is awake, which is c itself when no other task is awake; no awake
\* task between them is skipped and no awake flag, stack or instruction
\* pointer of any task is modified.
PauseSwitchesToNextAwake == [][PauseAsClaimed]_vars

\* pause as the code has it: the next awake task becomes the current one
\* when some task is awake, and pause does not return when none is.
PauseSwitchesOrSpins == [][PauseAsCoded]_vars

\* `1 suspend p`: the terminal task has suspended itself, no task is awake
\* and pause is still searching.
PauseNeverReturned ==
    /\ spinning
    /\ current_task = 0
    /\ \A i \in TaskIds : ~awake[i]
    /\ input_buffer = TaskPrefix \o <<Num(1), Tok("suspend"), Tok("p")>>

\* The condition of the loop of run: an iteration is possible.
RunContinues ==
    /\ phase = "run" /\ ~panicked /\ ~spinning
    /\ InDataSpace(instruction_pointer)

\* run keeps executing cells while the instruction pointer is inside the
\* data space: weak fairness of Forth, WF_vars(Forth), written out with the
\* condition of the loop as the enabling condition of the step.
SpecTasksFair ==
    SpecTasks /\ ([]<>(~RunContinues) \/ []<><<Forth>>_vars)

\* The VM after k executions of pause.
RECURSIVE PauseTimes(_, _)
PauseTimes(m, k) == IF k = 0 THEN m ELSE pause(PauseTimes(m, k - 1))

\* The distance from task c forward to task i, in 1..NUM_TASKS.
CyclicDistance(c, i) == ((i - c - 1 + NUM_TASKS) % NUM_TASKS) + 1

AwakeTasks == { i \in TaskIds : awake[i] }

\* The terminal task has typed m as its last phrase and every awake task
\* has code to execute; the workers and m execute pause again and again
\* and nothing changes the set of awake tasks any more.
AllTasksPausing ==
    /\ phase = "run" /\ ~spinning
    /\ LET t == Task_at(VM, 0)
       IN  /\ t.source_index = Len(t.input_buffer)
           /\ t.input_buffer[Len(t.input_buffer)] = Tok("m")
    /\ \A i \in AwakeTasks : InDataSpace(Task_at(VM, i).instruction_pointer)

\* C25: scheduling is round-robin.  While the set of awake tasks does not
\* change and every task that runs executes pause again, every awake task
\* becomes the current task again within NUM_TASKS executions of pause,
\* only awake tasks are visited, and they are visited in increasing index
\* order modulo NUM_TASKS.
RoundRobin ==
    /\ [](AwakeTasks /= {} =>
            /\ \A i \in AwakeTasks : \E k \in 1..NUM_TASKS :
                  PauseTimes(VM, k).current_task = i
            /\ \A k \in 1..NUM_TASKS :
                  PauseTimes(VM, k).current_task \in AwakeTasks
            /\ \A k \in 1..(Cardinality(AwakeTasks) - 1) :
                  CyclicDistance(current_task, PauseTimes(VM, k).current_task)
                    < CyclicDistance(current_task,
                                     PauseTimes(VM, k + 1).current_task))
    /\ [][(Executes("pause") /\ AwakeTasks /= {}) =>
            /\ current_task' \in AwakeTasks
            /\ \A i \in AwakeTasks :
                  CyclicDistance(current_task, current_task')
                    <= CyclicDistance(current_task, i)]_vars
    /\ \A i \in TaskIds :
          (AllTasksPausing /\ awake[i]) ~> (current_task = i)

\* `2 w 5 v m`: tasks 1, 2 and 5 are awake, all of them pause for ever and
\* the last of them is the current task.
ThreeTasksTakeTurns ==
    /\ AllTasksPausing
    /\ AwakeTasks = {0, 1, 4}
    /\ current_task = 4
    /\ Stack_as_slice(r_stack) = <<9>>
    /\ Stack_as_slice(Task_at(VM, 0).s_stack) = <<3>>

\* C26: pause is the only word that switches tasks.  Every step of the
\* interpreter and of run that does not execute pause, the steps of
\* activate, suspend, resume, me and of a word that raises an exception
\* among them, leaves the index of the current task as it was.
OnlyPauseSwitchesTasks ==
    [][~Executes("pause") => current_task' = current_task]_vars

\* `2 e p`: task 2 has divided by zero and is still the current task, and
\* the terminal task that activated it is parked with its 3.
WorkerAbortedAndStayed ==
    /\ current_task = 1
    /\ phase = "run"
    /\ last_error = "DIVISION_BY_ZERO"
    /\ aborted_word_pointer = XtOf("/")
    /\ awake[0] /\ awake[1]
    /\ Stack_as_slice(tasks[0].s_stack) = <<3>>
    /\ tasks[0].input_buffer = TaskPrefix \o <<Num(2), Tok("e"), Tok("p")>>

\* activate has been executed by the current task with the one-based task
\* id on top of its parameter stack.
ActivateAsClaimed ==
    LET ip == instruction_pointer
        id == Stack_top(s_stack)
        i  == id - 1
    IN  IF id \in 1..NUM_TASKS
        THEN i /= current_task =>
               /\ awake' = [awake EXCEPT ![i] = TRUE]
               /\ tasks'[i].r_stack.len = 0
               /\ ~tasks'[i].is_compiling
               /\ tasks'[i].instruction_pointer = ip + Cell
               /\ tasks'[i].s_stack = tasks[i].s_stack
               /\ current_task' = current_task
               /\ instruction_pointer' = AsUsize(Stack_top(r_stack))
               /\ r_stack' = Stack_drop(r_stack, 1)
               /\ s_stack' = Stack_drop(s_stack, 1)
               /\ \A j \in TaskIds \ {i, current_task} : tasks'[j] = tasks[j]
        ELSE /\ last_error' = "INVALID_NUMERIC_ARGUMENT"
             /\ awake' = awake
             /\ tasks' = tasks
             /\ current_task' = current_task

\* C27: activate executed by task c with a valid one-based id i of another
\* task on the stack marks task i awake and gives it an empty return stack,
\* interpret state and the address of the cell after activate as its
\* instruction pointer, while c continues at the address popped from its
\* return stack; with an id outside 1..NUM_TASKS it raises
\* INVALID_NUMERIC_ARGUMENT and changes no awake flag.
ActivateStartsTask ==
    [][Executes("activate") => ActivateAsClaimed]_vars

\* `5 v p 5 v`: task 5 ran v, which left 9 on its return stack and 8 on
\* its parameter stack and entered compile state, and was then activated
\* again.
TaskActivatedAgain ==
    /\ input_buffer =
          TaskPrefix \o <<Num(5), Tok("v"), Tok("p"), Num(5), Tok("v")>>
    /\ current_task = 0
    /\ source_index = Len(input_buffer)
    /\ word_pointer = XtOf("activate")
    /\ awake[4]
    /\ tasks[4].r_stack.len = 0
    /\ ~tasks[4].is_compiling
    /\ Stack_as_slice(tasks[4].s_stack) = <<8>>
    /\ mem[tasks[4].instruction_pointer - Cell] = XtOf("activate")

\* C28: an exception raised while task c is current affects the stacks of
\* task c only.  The step that raises it leaves the parameter, return,
\* control and float stacks, the instruction pointer and the compile state
\* of every other task, and every awake flag, unchanged.
ExceptionStaysInItsTask ==
    [][(last_error = NoError /\ last_error' /= NoError) =>
          /\ current_task' = current_task
          /\ awake' = awake
          /\ \A j \in TaskIds \ {current_task} :
                /\ tasks'[j].s_stack = tasks[j].s_stack
                /\ tasks'[j].r_stack = tasks[j].r_stack
                /\ tasks'[j].c_stack = tasks[j].c_stack
                /\ tasks'[j].f_stack = tasks[j].f_stack
                /\ tasks'[j].instruction_pointer = tasks[j].instruction_pointer
                /\ tasks'[j].is_compiling = tasks[j].is_compiling
          /\ s_stack'.len = 0 /\ c_stack'.len = 0 /\ f_stack'.len = 0]_vars

\* `5 v p 6 suspend`: the terminal task has raised
\* INVALID_NUMERIC_ARGUMENT and lost its 3, while task 5 still has its 8,
\* its 9 on the return stack and its compile state.
OtherTaskKeptItsStacks ==
    /\ input_buffer =
          TaskPrefix \o <<Num(5), Tok("v"), Tok("p"), Num(6), Tok("suspend")>>
    /\ current_task = 0
    /\ last_error = "INVALID_NUMERIC_ARGUMENT"
    /\ s_stack.len = 0
    /\ awake[4]
    /\ Stack_as_slice(tasks[4].s_stack) = <<8>>
    /\ Stack_as_slice(tasks[4].r_stack) = <<9>>
    /\ tasks[4].is_compiling
    /\ InDataSpace(tasks[4].instruction_pointer)

\* q and r are the quotient and the remainder of the truncated division of
\* a by b in wrapping cell arithmetic.
IsQuotRem(a, b, q, r) ==
    /\ q \in IsizeMin..IsizeMax /\ r \in IsizeMin..IsizeMax
    /\ Wrap(q * b + r) = a
    /\ Abs(r) < Abs(b)
    /\ r /= 0 => ((r < 0) = (a < 0))

\* The step that executes the division word of `: t a b w 5 ; t 6`.
DivisionSteps ==
    \A a \in DivArgs, b \in DivArgs, w \in DivWords :
        (input_buffer = DivLine(a, b, w) /\ Executes(w)) =>
            /\ Stack_as_slice(s_stack) = <<a, b>>
            /\ IF b = 0
               THEN /\ last_error' = "DIVISION_BY_ZERO"
                    /\ s_stack'.len = 0
               ELSE /\ last_error' = NoError
                    /\ LET res == Stack_as_slice(s_stack')
                       IN  CASE w = "/mod" ->
                                  /\ Len(res) = 2
                                  /\ IsQuotRem(a, b, res[2], res[1])
                             [] w = "/" ->
                                  /\ Len(res) = 1
                                  /\ \E r \in IsizeMin..IsizeMax :
                                        IsQuotRem(a, b, res[1], r)
                             [] w = "mod" ->
                                  /\ Len(res) = 1
                                  /\ \E q \in IsizeMin..IsizeMax :
                                        IsQuotRem(a, b, q, res[1])

\* C29: for all cells a and b with b /= 0, `a b /mod` replaces the operands
\* by the remainder and, on top, the quotient of the truncated division,
\* which wraps for MIN / -1, so that quot * b + rem = a in wrapping cell
\* arithmetic; with b = 0 each of `/`, `mod` and `/mod` raises
\* DIVISION_BY_ZERO.
SlashModTruncates ==
    /\ [](\A a \in DivArgs, b \in DivArgs, w \in DivWords :
            (input_buffer = DivLine(a, b, w) /\ phase = "idle") =>
                IF b = 0 THEN last_error = "DIVISION_BY_ZERO"
                ELSE /\ last_error = NoError
                     /\ s_stack.len = (IF w = "/mod" THEN 4 ELSE 3))
    /\ [][DivisionSteps]_vars

\* `: t MIN -1 /mod 5 ; t 6` is done: remainder 0, quotient MIN.
MinByMinusOneWrapped ==
    /\ input_buffer = DivLine(IsizeMin, -1, "/mod")
    /\ phase = "idle"
    /\ Stack_as_slice(s_stack) = <<0, IsizeMin, 5, 6>>

\* `: t -7 3 /mod 5 ; t 6` is done: remainder -1, quotient -2.
NegativeDividendTruncated ==
    /\ input_buffer = DivLine(-7, 3, "/mod")
    /\ phase = "idle"
    /\ Stack_as_slice(s_stack) = <<-1, -2, 5, 6>>

\* The memory word of `7 v addr w` has succeeded: a fetch has replaced the
\* address by a value and left the data space alone, a store has consumed
\* value and address.
MemWordSucceeded(w) ==
    /\ last_error' = NoError
    /\ IF w \in {"@", "c@"}
       THEN /\ s_stack'.len = 3
            /\ mem' = mem
       ELSE s_stack'.len = 1

MemWordRefused ==
    /\ last_error' = "INVALID_MEMORY_ADDRESS"
    /\ mem' = mem /\ here' = here

\* The step that interprets the memory word of a line `7 v addr w`; ok(w, t)
\* tells the addresses t at which word w is to succeed.
MemorySteps(ok(_, _)) ==
    \A w \in MemWords : \A addr \in MemAddrs(w) :
        (/\ input_buffer = MemLine(w, addr)
         /\ phase = "token" /\ source_index = 3) =>
            IF ok(w, AsUsize(Wrap(addr))) THEN MemWordSucceeded(w)
            ELSE MemWordRefused

\* Every byte that w accesses at t lies in start..limit-1.
InsideDataSpace(w, t) == start <= t /\ t + AccessSize(w) <= limit

\* The tests of fetch, store, c_fetch and c_store.
AcceptedByTheCode(w, t) ==
    /\ IF w = "c@" THEN start <= t ELSE start < t
    /\ t + AccessSize(w) <= limit

\* C30: `@`, `!`, `c@` and `c!` succeed exactly when every byte they
\* access lies at an address addr with start <= addr < limit, so that the
\* first address start is valid for all four; for any other address they
\* raise INVALID_MEMORY_ADDRESS and leave the data space unchanged.
MemoryWordsAcceptDataSpace == [][MemorySteps(InsideDataSpace)]_vars

\* The memory words as the code has them: `@`, `!` and `c!` refuse the
\* address start and only `c@` accepts it; above start the four words
\* succeed exactly when every byte they access lies below limit, and a
\* refused access leaves the data space unchanged.
MemoryWordsRefuseStart == [][MemorySteps(AcceptedByTheCode)]_vars

\* `7 9 64 @` has ended with INVALID_MEMORY_ADDRESS: the first address of
\* the data space was refused.
FetchAtStartRefused ==
    /\ input_buffer = MemLine("@", start)
    /\ phase = "idle"
    /\ source_index = 4
    /\ last_error = "INVALID_MEMORY_ADDRESS"
    /\ s_stack.len = 0

\* ----------------------------------------------------------------------
\* parse_word on the characters of the input buffer
\* ----------------------------------------------------------------------

\* Most characters of a line.
MaxChars == 4

\* Space, tab, line feed and carriage return.
Whitespace == { 32, 9, 10, 13 }

\* The characters of the lines: the whitespace and the letters a and b.
LineChars == Whitespace \cup { 97, 98 }

RECURSIVE CharLinesOf(_)
CharLinesOf(n) ==
    IF n = 0 THEN { << >> }
    ELSE LET shorter == CharLinesOf(n - 1)
         IN  shorter \cup { Append(l, c) : l \in { x \in shorter : Len(x) = n - 1 },
                                           c \in LineChars }

CharLines == CharLinesOf(MaxChars)

\* The loop of parse_word over source.char_indices() from index idx: the
\* token and cnt.
RECURSIVE parse_word_loop(_, _, _)
parse_word_loop(source, idx, token) ==
    IF idx >= Len(source) THEN [token |-> token, cnt |-> Len(source)]
    ELSE LET ch == source[idx + 1]
         IN  IF ch \in Whitespace
             THEN IF token /= << >> THEN [token |-> token, cnt |-> idx]
                  ELSE parse_word_loop(source, idx + 1, token)
             ELSE parse_word_loop(source, idx + 1, Append(token, ch))

\* parse_word with the delimiter that ends the token counted as consumed.
parse_word_past_delimiter(m) ==
    IF m.source_index < Len(m.input_buffer)
    THEN LET source == SubSeq(m.input_buffer, m.source_index + 1,
                              Len(m.input_buffer))
             r == parse_word_loop(source, 0, << >>)
         IN  [m EXCEPT !.last_token = r.token,
                       !.source_index = @ + (IF r.cnt < Len(source)
                                             THEN r.cnt + 1 ELSE r.cnt)]
    ELSE [m EXCEPT !.last_token = << >>]

\* parse_word on a buffer of characters; the token is a sequence of
\* characters.
parse_word_chars(m) ==
    IF m.source_index < Len(m.input_buffer)
    THEN LET source == SubSeq(m.input_buffer, m.source_index + 1,
                              Len(m.input_buffer))
             r == parse_word_loop(source, 0, << >>)
         IN  [m EXCEPT !.last_token = r.token,
                       !.source_index = @ + r.cnt]
    ELSE [m EXCEPT !.last_token = << >>]

\* parse_word is called until it yields the empty token.
ParseWord ==
    /\ phase = "parse"
    /\ Becomes(parse_word_chars(VM))
    /\ phase' = IF last_token' = << >> THEN "idle" ELSE "parse"

InitParse ==
    /\ \E line \in CharLines : Holds([VM0 EXCEPT !.input_buffer = line,
                                                 !.last_token = << >>])
    /\ phase = "parse"

NextParse == ParseWord

SpecParse == InitParse /\ [][NextParse]_vars

\* The first index from k on (zero-based) whose character is, or is not,
\* whitespace; the length of the buffer when there is none.
FirstFrom(k, white) ==
    LET ks == { j \in k..(Len(input_buffer) - 1) :
                  (input_buffer[j + 1] \in Whitespace) = white }
    IN  IF ks = {} THEN Len(input_buffer)
        ELSE CHOOSE j \in ks : \A i \in ks : j <= i

\* Where the next token begins and where it ends.
TokenStart == FirstFrom(source_index, FALSE)

TokenEnd == FirstFrom(TokenStart, TRUE)

\* What parse_word yields, but for the index it leaves.
ParsedToken ==
    /\ last_token' = SubSeq(input_buffer, TokenStart + 1, TokenEnd)
    /\ \A k \in 1..Len(last_token') : last_token'[k] \notin Whitespace
    /\ TokenStart = Len(input_buffer) => last_token' = << >>
    /\ UNCHANGED input_buffer

\* C31: parse_word skips leading whitespace (space, tab, CR, LF), copies
\* the next whitespace-delimited token into the last-token buffer and
\* leaves source_index just past the token and the one delimiter that
\* follows it; with only whitespace or nothing left it yields the empty
\* token.
ParseWordSkipsDelimiter ==
    [][phase = "parse" =>
          /\ ParsedToken
          /\ source_index' = (IF TokenEnd < Len(input_buffer)
                              THEN TokenEnd + 1 ELSE TokenEnd)]_vars

\* C31 as the code has it: parse_word leaves source_index at the delimiter
\* that follows the token (at the end of the buffer when none follows);
\* the delimiter is skipped as leading whitespace by the next call.
ParseWordStopsAtDelimiter ==
    [][phase = "parse" => (ParsedToken /\ source_index' = TokenEnd)]_vars

\* `a b`: the first token is parsed and source_index is 1, at the space.
StoppedAtTheSpace ==
    /\ input_buffer = <<97, 32, 98>>
    /\ last_token = <<97>>
    /\ source_index = 1

\* ----------------------------------------------------------------------
\* Defining words: create, constant, does>
\* ----------------------------------------------------------------------

\* The add_* calls of add_core for the defining words, in source order.
DefiningWords ==
    << <<"c", "_does", "_does">>, <<"ic", "does>", "does">>,
       <<"p", "constant", "constant">>, <<"p", "create", "create">> >>

RECURSIVE add_defining_words(_, _)
add_defining_words(m, k) ==
    IF k > Len(DefiningWords) THEN m
    ELSE LET e == DefiningWords[k]
             m1 == CASE e[1] = "p"  -> add_primitive(m, e[2], e[3])
                     [] e[1] = "c"  -> add_compile_only(m, e[2], e[3])
                     [] e[1] = "ic" -> add_immediate_and_compile_only(m, e[2], e[3])
         IN  add_defining_words(m1, k + 1)

\* references().idx__does = find("_does")
set_idx__does(m) ==
    [m EXCEPT !.references =
       [f \in DOMAIN m.references \cup {"idx__does"} |->
          IF f = "idx__does" THEN find(m, "_does") ELSE m.references[f]]]

\* The machine of VM0 with the defining words registered and idx__does
\* looked up.
VMDefining == set_idx__does(add_defining_words(VM0, 1))

\* What follows `create` in the defining word: nothing, or `7 ,`.
DoesBodies == { << >>, <<Num(7), Tok(",")>> }

\* The code X after does>.
DoesCodes == { <<Num(5)>>, <<Tok("@")>>, <<Tok("1+")>> }

\* The use of the created word: interpreted, or compiled into t.
DoesUses ==
    { <<Tok("w"), Num(3)>>,
      <<Tok(":"), Tok("t"), Tok("w"), Num(3), Tok(";"), Tok("t"), Num(4)>> }

\* `: d create B does> X ; d w U`
DoesLine(b, x, u) ==
    <<Tok(":"), Tok("d"), Tok("create")>> \o b \o <<Tok("does>")>> \o x
      \o <<Tok(";"), Tok("d"), Tok("w")>> \o u

DoesLines == { DoesLine(b, x, u) : b \in DoesBodies, x \in DoesCodes, u \in DoesUses }

\* The defining words, each as it is typed: constant takes a value.
DefiningPhrases ==
    { <<Tok(":")>>, <<Tok("create")>>, <<Num(5), Tok("constant")>>,
      <<Tok("marker")>> }

\* A defining word at the end of the line, interpreted or inside d, alone
\* or after a definition; and the same followed by the name x.
NoNameLines ==
    { pre \o p : pre \in { << >>, <<Tok(":"), Tok("a"), Tok(";")>> },
                 p \in DefiningPhrases }
      \cup { <<Tok(":"), Tok("d")>> \o p \o <<Tok(";"), Tok("d")>> :
               p \in DefiningPhrases }

NamedLines == { l \o <<Tok("x")>> : l \in NoNameLines }

DefiningLines == DoesLines \cup NoNameLines \cup NamedLines

InitDefining ==
    /\ \E line \in DefiningLines : Holds(set_source(VMDefining, line))
    /\ phase = "token"

SpecDefining == InitDefining /\ [][Next]_vars

\* The XT of the most recent word named n.
XtNamed(n) ==
    CHOOSE i \in 0..(Len(words) - 1) :
        /\ words[i + 1].name = n
        /\ \A j \in (i + 1)..(Len(words) - 1) : words[j + 1].name /= n

\* The step is an iteration of run that executes _does.
ExecutesDoes ==
    /\ phase = "run" /\ InDataSpace(instruction_pointer)
    /\ mem[instruction_pointer] = references.idx__does

\* _does leaves the most recent definition with the action xdoes and, as
\* its doer, the code after the exit that follows _does; the defining word
\* goes on with that exit.
DoesChangesLastDefinition ==
    ExecutesDoes =>
        /\ Len(words') = Len(words) /\ last' = last
        /\ words'[last + 1].action = "xdoes"
        /\ words'[last + 1].doer = instruction_pointer + 2 * Cell
        /\ words'[last + 1].dfa = words[last + 1].dfa
        /\ instruction_pointer' = instruction_pointer + Cell
        /\ mem[instruction_pointer'] = references.idx_exit
        /\ s_stack' = s_stack /\ r_stack' = r_stack
        /\ last_error' = NoError

\* The step executes a word whose action is xdoes: the word is the token
\* interpreted, or the cell run has reached.
XdoesWord ==
    IF phase = "run" /\ InDataSpace(instruction_pointer)
    THEN mem[instruction_pointer]
    ELSE IF /\ phase = "token" /\ ~is_compiling
            /\ source_index < Len(input_buffer)
            /\ input_buffer[source_index + 1] = Tok("w")
    THEN XtNamed("w")
    ELSE -1

\* The created word pushes its data-field address and enters its doer with
\* the return address on the return stack.
XdoesEntersDoer ==
    LET xt == XdoesWord
    IN  (xt \in 0..(Len(words) - 1) /\ words[xt + 1].action = "xdoes") =>
            /\ s_stack' = Stack_push(s_stack, words[xt + 1].dfa)
            /\ instruction_pointer' = words[xt + 1].doer
            /\ r_stack' = Stack_push(r_stack,
                              IF phase = "run" THEN instruction_pointer + Cell
                              ELSE instruction_pointer)
            /\ phase' = "run"
            /\ last_error' = NoError

\* What the code X leaves of the data-field address dfa.
DoesCodeLeaves(x, dfa) ==
    CASE x = <<Num(5)>> -> <<dfa, 5>>
      [] x = <<Tok("@")>> -> <<mem[dfa]>>
      [] x = <<Tok("1+")>> -> <<dfa + 1>>

\* The line has been evaluated to its end: the defining word has left
\* nothing, the created word has run X once on its data-field address and
\* returned to its caller, which went on.
DoesLineDone ==
    \A b \in DoesBodies, x \in DoesCodes, u \in DoesUses :
        (input_buffer = DoesLine(b, x, u) /\ phase = "idle") =>
            /\ last_error = NoError
            /\ Stack_as_slice(s_stack) =
                 DoesCodeLeaves(x, words[XtNamed("w") + 1].dfa)
                   \o (IF Len(u) = 2 THEN <<3>> ELSE <<3, 4>>)
            /\ r_stack.len = 0

\* C32: when a defining word `: def create ... does> X ;` runs and creates
\* w, _does changes the action of w, the most recent definition, so that
\* executing w pushes w's data-field address and then executes the code X
\* compiled after does>, returning to w's caller when X reaches its exit;
\* the defining word stops at the exit compiled right after _does and does
\* not run X.
CreateDoesDefinesAction ==
    [][/\ DoesChangesLastDefinition
       /\ XdoesEntersDoer
       /\ DoesLineDone']_vars

\* `: d create 7 , does> @ ; d w : t w 3 ; t 4` is done: 7, 3 and 4 are
\* on the stack.
CreatedWordFetchedItsCell ==
    /\ input_buffer = DoesLine(<<Num(7), Tok(",")>>, <<Tok("@")>>,
                               <<Tok(":"), Tok("t"), Tok("w"), Num(3), Tok(";"),
                                 Tok("t"), Num(4)>>)
    /\ phase = "idle"
    /\ words[XtNamed("w") + 1].action = "xdoes"
    /\ Stack_as_slice(s_stack) = <<7, 3, 4>>

\* ----------------------------------------------------------------------
\* _+loop
\* ----------------------------------------------------------------------

\* The loop-control cells on the return stack: the biased counter rt, the
\* bias rn and the address of the cell after _do.
LoopRt == Stack_at(r_stack, U8(r_stack.len - 1))

LoopRn == Stack_at(r_stack, U8(r_stack.len - 2))

LoopIndex == Wrap(LoopRt + LoopRn)

LoopLimit == Wrap(LoopRn + IsizeMin)

\* Adding n to index crosses the boundary between limit-1 and limit, on
\* the circle of the cell values: upward when n is more than the distance
\* from index up to limit-1, downward when -n is more than the distance
\* from index down to limit.
CrossesLimit(index, lim, n) ==
    \/ n > 0 /\ n > (lim - 1 - index) % CellMod
    \/ n < 0 /\ -n > (index - lim) % CellMod

\* A step of _+loop with step n on the parameter stack.
PlusLoopStep ==
    Executes("_+loop") =>
        LET n  == Stack_top(s_stack)
            ip == instruction_pointer + Cell
        IN  /\ s_stack'.len = s_stack.len - 1
            /\ last_error' = NoError
            /\ IF CrossesLimit(LoopIndex, LoopLimit, n)
               THEN /\ r_stack'.len = r_stack.len - 3
                    /\ Stack_as_slice(r_stack') =
                         SubSeq(Stack_as_slice(r_stack), 1, r_stack.len - 3)
                    /\ instruction_pointer' = ip + Cell
               ELSE /\ r_stack'.len = r_stack.len
                    /\ LoopIndex' = Wrap(LoopIndex + n)
                    /\ LoopLimit' = LoopLimit
                    /\ instruction_pointer' = mem[ip]
                    /\ instruction_pointer' =
                         Stack_at(r_stack, U8(r_stack.len - 3)) + Cell

\* `1 5 0 do 1+ 2 +loop` and `1 6 0 do 1+ 2 +loop` run the body three
\* times: 4 is left.
PlusLoopExamples ==
    \A lim \in {5, 6} :
        (input_buffer = PlusLoopLine(<<lim, 0>>, 2) /\ phase = "idle") =>
            /\ last_error = NoError
            /\ Stack_as_slice(s_stack) = <<4>>
            /\ r_stack.len = 0

\* C33: _+loop with step n adds n to the loop index and leaves the loop
\* exactly when the index crosses the boundary between limit-1 and limit,
\* in either direction; otherwise it branches back to the start of the
\* body.  On leaving it removes the three loop-control cells from the
\* return stack.  `1 5 0 do 1+ 2 +loop` and `1 6 0 do 1+ 2 +loop` both run
\* the body three times.
PlusLoopLeavesOnCrossing ==
    [][PlusLoopStep /\ PlusLoopExamples']_vars

\* `: t 1 0 5 do 1+ -2 +loop ; t` is done: the index went 5, 3, 1 and the
\* step from 1 to -1 crossed the limit 0 downward, after three runs of the
\* body.
DownwardLoopLeft ==
    /\ input_buffer = PlusLoopLine(<<0, 5>>, -2)
    /\ phase = "idle"
    /\ last_error = NoError
    /\ Stack_as_slice(s_stack) = <<4>>
    /\ r_stack.len = 0

\* ----------------------------------------------------------------------
\* allot and the bounds of the data space
\* ----------------------------------------------------------------------

\* The step interprets the token `allot`.
InterpretsAllot ==
    /\ phase = "token" /\ ~is_compiling
    /\ source_index < Len(input_buffer)
    /\ input_buffer[source_index + 1] = Tok("allot")

\* C34: `n allot` moves the data-space pointer by exactly n address units
\* for every n: after it, here equals the old here + n.
AllotMovesHereByN ==
    [][InterpretsAllot => here' = here + Stack_top(s_stack)]_vars

\* C34 as the code has it: `n allot` moves here by exactly n when
\* start <= here + n <= limit; otherwise set_here refuses, allot drops its
\* result, and here is left where it was with no exception raised.
AllotMovesHereWithinArena ==
    [][InterpretsAllot =>
          LET n == Stack_top(s_stack)
          IN  /\ here' = (IF start <= here + n /\ here + n <= limit
                          THEN here + n ELSE here)
              /\ s_stack'.len = s_stack.len - 1
              /\ last_error' = NoError
              /\ mem' = mem]_vars

\* After `MAX allot` and an allot of the rest, here is the limit of the
\* data space.
AllottedUpToLimit ==
    /\ input_buffer = AllotLine(IsizeMax, limit - VM0.here - IsizeMax)
    /\ phase = "idle"
    /\ here = limit

\* After `MIN allot` alone here is where it was.
AllotBelowStartRefused ==
    /\ input_buffer = AllotLine(IsizeMin, 0)
    /\ phase = "idle"
    /\ here = VM0.here
    /\ last_error = NoError

\* The names of the defining words.
DefiningNames == { ":", "create", "constant", "marker" }

\* The defining word the step executes, as the token interpreted or as the
\* cell run has reached; "" when it executes none.
DefiningWordRun ==
    IF phase = "run" /\ InDataSpace(instruction_pointer)
    THEN LET xt == mem[instruction_pointer]
         IN  IF xt \in 0..(Len(words) - 1) /\ words[xt + 1].name \in DefiningNames
             THEN words[xt + 1].name ELSE ""
    ELSE IF /\ phase = "token" /\ ~is_compiling
            /\ source_index < Len(input_buffer)
            /\ input_buffer[source_index + 1].w \in DefiningNames
    THEN input_buffer[source_index + 1].w
    ELSE ""

\* No token is left for the defining word the step executes.
NoNameFollows ==
    /\ DefiningWordRun /= ""
    /\ source_index + (IF phase = "token" THEN 1 ELSE 0) >= Len(input_buffer)

\* C35: a defining word (`:`, create, constant, marker) executed when no
\* name follows in the input raises UNEXPECTED_END_OF_FILE, appends no
\* header to the word list, leaves here unchanged and leaves the task in
\* interpret state.
DefiningWithoutNameChangesNothing ==
    [][NoNameFollows =>
          /\ last_error' = "UNEXPECTED_END_OF_FILE"
          /\ words' = words /\ last' = last
          /\ here' = here
          /\ ~is_compiling']_vars

\* C35 as the code has it: `:`, create and constant do as claimed; marker
\* raises the exception and appends no header, but goes on after define
\* and compiles `last` and the BUCKET_SIZE bucket heads at here.
DefiningWithoutNameButMarker ==
    [][NoNameFollows =>
          /\ last_error' = "UNEXPECTED_END_OF_FILE"
          /\ words' = words /\ last' = last
          /\ ~is_compiling'
          /\ IF DefiningWordRun = "marker"
             THEN /\ here' = here + (BUCKET_SIZE + 1) * Cell
                  /\ mem'[here] = last
                  /\ \A i \in 0..(BUCKET_SIZE - 1) :
                        mem'[here + (i + 1) * Cell] = buckets[i]
             ELSE here' = here /\ mem' = mem]_vars

\* `marker` alone on the line: the exception is raised and here has moved.
MarkerWithoutNameCompiled ==
    /\ input_buffer = <<Tok("marker")>>
    /\ phase = "idle"
    /\ last_error = "UNEXPECTED_END_OF_FILE"
    /\ words = VMDefining.words
    /\ here = VMDefining.here + (BUCKET_SIZE + 1) * Cell

\* ----------------------------------------------------------------------
\* The two sets of labels
\* ----------------------------------------------------------------------

\* The tokens of the line evaluated so far.
Evaluated == 1..source_index

\* Token k is the label word w with argument n: `[ n ] w`.
LabelOpAt(k, w, n) ==
    /\ k \in Evaluated /\ k > 3
    /\ input_buffer[k] = Tok(w)
    /\ input_buffer[k - 2] = Num(n)

\* The position of the last `0labels` evaluated; 0 when there is none.
LastCleared ==
    LET ks == { k \in Evaluated : input_buffer[k] = Tok("0labels") }
    IN  IF ks = {} THEN 0 ELSE CHOOSE k \in ks : \A j \in ks : j <= k

\* A goto or call to n was compiled since the labels were last cleared,
\* and n has not been defined since.
ReferencedAndUndefined(n) ==
    \E k \in Evaluated :
        /\ k > LastCleared
        /\ LabelOpAt(k, "goto", n) \/ LabelOpAt(k, "call", n)
        /\ \A j \in Evaluated : j > k => ~LabelOpAt(j, "label", n)

\* C36: the forward and resolved label sets are disjoint in every
\* reachable state: after any sequence of 0labels, label n, goto n and
\* call n, with valid or invalid n, no label number is in both sets, and a
\* label is in the forward set only if at least one goto or call to it was
\* compiled since it was last cleared and it has not been defined since.
LabelSetsDisjoint ==
    /\ forward_bitset \cap resolved_bitset = {}
    /\ forward_bitset \cup resolved_bitset \subseteq 1..(LABEL_COUNT - 1)
    /\ \A n \in forward_bitset : ReferencedAndUndefined(n)

\* After `[ 1 ] goto [ 999 ] label [ 999 ] call` label 1 is forward and
\* label 999 resolved.
OneForwardOneResolved ==
    /\ forward_bitset = {1}
    /\ resolved_bitset = {999}
    /\ LabelOpAt(source_index, "call", 999)
    /\ phase = "token"

\* ----------------------------------------------------------------------
\* The exception handler
\* ----------------------------------------------------------------------

\* The step interprets the token w.
Interprets(w) ==
    /\ phase = "token" /\ ~is_compiling
    /\ source_index < Len(input_buffer)
    /\ input_buffer[source_index + 1] = Tok(w)

\* C37: in every reachable state the exception-handler XT refers to an
\* existing dictionary entry (handler < word-list length), also after
\* handler! and after a marker word has truncated the dictionary;
\* consequently abort_with always dispatches to a real word and returns.
HandlerIsAWord == handler < Len(words)

\* C37 as the code has it: handler! stores whatever cell it is given, and
\* a marker word truncates the word list without looking at the handler;
\* abort with a handler that is no word does not return.
HandlerIsWhatWasStored ==
    [][/\ Interprets("handler!") => handler' = AsUsize(Stack_top(s_stack))
       /\ Interprets("m") =>
            (handler' = handler /\ Len(words') = XtNamed("m"))
       /\ Interprets("abort") =>
            (panicked' <=> handler >= Len(words))]_vars

\* `marker m : h 9 ; h' handler! m abort`: the handler is the XT of the
\* forgotten word h, and abort has not returned.
HandlerOutlivedItsWord ==
    /\ input_buffer[1] = Tok("marker")
    /\ Len(words) = FirstNewXt
    /\ handler = FirstNewXt + 1
    /\ panicked

\* ----------------------------------------------------------------------
\* The search of pause
\* ----------------------------------------------------------------------

\* The probes of awake flags the loop of pause makes from task c until it
\* finds an awake task, when there is one.
PauseProbes(c) ==
    CHOOSE k \in 1..NUM_TASKS :
        /\ awake[(c + k) % NUM_TASKS]
        /\ \A j \in 1..(k - 1) : ~awake[(c + j) % NUM_TASKS]

\* C38: pause always terminates: in every reachable state, including after
\* the running task has suspended itself or other tasks with suspend, the
\* search for the next awake task ends after at most NUM_TASKS probes.
PauseSearchEnds ==
    [][Executes("pause") =>
          /\ ~spinning'
          /\ \E k \in 1..NUM_TASKS :
                /\ current_task' = (current_task + k) % NUM_TASKS
                /\ awake[current_task']]_vars

\* C38 as the code has it: the search ends after at most NUM_TASKS probes
\* when some task is awake, the current one included; when no task is
\* awake, which the current task brings about by suspending itself as the
\* last awake one, the search has no end.
PauseSearchEndsIfSomeTaskAwake ==
    [][Executes("pause") =>
          IF AwakeTasks /= {}
          THEN /\ ~spinning'
               /\ PauseProbes(current_task) <= NUM_TASKS
               /\ current_task' =
                    (current_task + PauseProbes(current_task)) % NUM_TASKS
          ELSE /\ spinning'
               /\ current_task' = current_task]_vars

\* `1 suspend m`: the terminal task, the only awake one, has suspended
\* itself and entered the loop of m; its first pause finds no awake task.
SearchFoundNoTask ==
    /\ input_buffer = TaskPrefix \o <<Num(1), Tok("suspend"), Tok("m")>>
    /\ AwakeTasks = {}
    /\ spinning

\* ----------------------------------------------------------------------
\* here stays inside the data space
\* ----------------------------------------------------------------------

\* Most phrases of a line that moves here.
MaxArenaPhrases == 3

\* allot by a cell and by a byte either way, by the extremes of a cell and,
\* from here h, by the exact distances to start and to limit where a cell
\* can hold them.
ArenaAllots(h) ==
    { Cell, -Cell, 1, -1, IsizeMax, IsizeMin }
        \cup ({ start - h, limit - h } \cap IsizeMin..IsizeMax)

\* The phrases that compile, define (compile_str and align) and roll back.
ArenaCompiles ==
    { <<Num(7), Tok(",")>>, <<Tok(":"), Tok("a"), Tok(";")>>,
      <<Tok("marker"), Tok("m")>>, <<Tok("m")>> }

ArenaPhrases(h) ==
    { <<Num(n), Tok("allot")>> : n \in ArenaAllots(h) } \cup ArenaCompiles

\* The phrases typed so far, counted by their last tokens.
ArenaPhraseCount(line) ==
    Cardinality({ k \in 1..Len(line) :
                    line[k] \in { Tok("allot"), Tok(","), Tok(";"), Tok("m") } })

\* The line continues with a phrase.  The data space is modelled in cells,
\* so a phrase that compiles is typed while here is cell-aligned.
TypeArena ==
    /\ phase = "token" /\ ~panicked /\ ~spinning
    /\ source_index = Len(input_buffer)
    /\ ArenaPhraseCount(input_buffer) < MaxArenaPhrases
    /\ \E p \in ArenaPhrases(here) :
          /\ p \in ArenaCompiles => here % Cell = 0
          /\ input_buffer' = input_buffer \o p
    /\ UNCHANGED << mem, here, panicked, words, last, buckets, temp_buckets,
                    s_stack, r_stack, c_stack, f_stack, is_compiling,
                    instruction_pointer, word_pointer, aborted_word_pointer,
                    source_index, last_error, handler, labels, forward_bitset,
                    resolved_bitset, last_token, references, source_id,
                    current_task, awake, tasks, spinning, phase >>

InitArena ==
    /\ Holds(set_source(VM0, << >>))
    /\ phase = "token"

NextArena == EvalToken \/ EndRun \/ TypeArena

SpecArena == InitArena /\ [][NextArena]_vars

\* C39: the data-space pointer stays inside the arena: in every reachable
\* state start <= here <= limit, whatever sequence of allot (positive or
\* negative), align, compile operations and marker rollbacks is executed;
\* a request that would move here outside this range does not move it.
HereStaysInsideArena ==
    /\ [](start <= here /\ here <= limit)
    /\ [][(/\ Consumes("allot")
            /\ ~(/\ start <= here + Stack_top(s_stack)
                 /\ here + Stack_top(s_stack) <= limit))
              => here' = here]_vars

\* `MAX allot`, an allot of the rest and `1 allot`: here is at the limit
\* and the last allot has not moved it.
HereHeldAtLimit ==
    /\ input_buffer =
         <<Num(IsizeMax), Tok("allot"), Num(limit - VM0.here - IsizeMax),
           Tok("allot"), Num(1), Tok("allot")>>
    /\ source_index = Len(input_buffer)
    /\ here = limit
    /\ ~panicked

\* ----------------------------------------------------------------------
\* Rejected label operations
\* ----------------------------------------------------------------------

\* The step executes the label word w with a label number outside
\* (0, LABEL_COUNT) on the parameter stack.
RejectsLabelNumber(w) ==
    /\ Consumes(w)
    /\ is_compiling
    /\ AsUsize(Stack_top(s_stack)) \notin 1..(LABEL_COUNT - 1)

\* C40: a rejected label operation compiles nothing: when label, goto or
\* call raises INVALID_NUMERIC_ARGUMENT because the label number is outside
\* (0, 1000), here, the data-space contents, the labels table and both
\* bit-sets are the same as before the word was executed.
RejectedLabelOpCompilesNothing ==
    [][\A w \in LabelWords :
          RejectsLabelNumber(w) =>
              /\ last_error' = "INVALID_NUMERIC_ARGUMENT"
              /\ UNCHANGED << here, mem, labels, forward_bitset,
                              resolved_bitset >>]_vars

\* C40 as the code has it: label and goto test the number first and
\* compile nothing; call compiles `lit return-address >r` and then lets
\* goto test the number, so its three cells stay in the data space.
RejectedCallLeavesThreeCells ==
    [][\A w \in LabelWords :
          RejectsLabelNumber(w) =>
              /\ last_error' = "INVALID_NUMERIC_ARGUMENT"
              /\ UNCHANGED << labels, forward_bitset, resolved_bitset >>
              /\ IF w = "call"
                 THEN /\ here' = here + 3 * Cell
                      /\ mem' = [mem EXCEPT ![here] = references.idx_lit,
                                            ![here + Cell] = here + 5 * Cell,
                                            ![here + 2 * Cell] = references.idx_to_r]
                 ELSE UNCHANGED << here, mem >>]_vars

\* `: t [ 1000 ] call`: the call is rejected and three cells were compiled.
RejectedCallCompiled ==
    /\ input_buffer = Header \o Bracket(1000) \o <<Tok("call")>>
    /\ phase = "idle"
    /\ last_error = "INVALID_NUMERIC_ARGUMENT"
    /\ here = BodyAddr(3)
    /\ mem[BodyAddr(0)] = references.idx_lit
    /\ mem[BodyAddr(2)] = references.idx_to_r
=============================================================================
